---- MODULE Spec2Model ----
(***************************************************************************)
(* A model of the cash-flow application core (src/core): the request       *)
(* filter of middleware.py, the forms of forms.py, the model validation of *)
(* models.py and the views of views.py over the five tables of the store.  *)
(***************************************************************************)
EXTENDS Integers, Sequences, FiniteSets, TLC

VARIABLES
    statuses,       \* Status rows: pk -> [name]
    types,          \* Type rows: pk -> [name]
    categories,     \* Category rows: pk -> [name, type]
    subcategories,  \* Subcategory rows: pk -> [name, category]
    records,        \* CashFlowRecord rows: pk -> [status, type, category, subcategory, amount]
    settings,       \* django.conf.settings: the attributes set, as <<name, value>>
    request,        \* the request being (or last) handled
    resp,           \* the response to it: [status, by], by the middleware or a view
    log,            \* the audit entries the logger received while handling it
    phase,          \* "received" (request drawn) or "done" (response produced)
    candidate,      \* the form or instance handed to validation on its own
    errors          \* the errors that validation reported for the candidate

store == <<statuses, types, categories, subcategories, records>>
vars == <<statuses, types, categories, subcategories, records,
          settings, request, resp, log, phase, candidate, errors>>

(***************************************************************************)
(* Text.  A value is a string; str.lower, \b, \s, \w and \d are those of   *)
(* Python's re on the ASCII alphabet used here.                            *)
(***************************************************************************)
UpperLetters == "ABCDEFGHIJKLMNOPQRSTUVWXYZ"
LowerLetters == "abcdefghijklmnopqrstuvwxyz"
Digits == {"0", "1", "2", "3", "4", "5", "6", "7", "8", "9"}
Chars(s) == {SubSeq(s, i, i) : i \in 1..Len(s)}
WordChars == Chars(UpperLetters) \cup Chars(LowerLetters) \cup Digits \cup {"_"}
Whitespace == {" ", "\t", "\n"}

At(s, i) == IF i >= 1 /\ i <= Len(s) THEN SubSeq(s, i, i) ELSE ""

LowerChar(c) ==
    IF c \in Chars(UpperLetters)
    THEN LET i == CHOOSE k \in 1..Len(UpperLetters) : SubSeq(UpperLetters, k, k) = c
         IN  SubSeq(LowerLetters, i, i)
    ELSE c

RECURSIVE lower(_)
lower(s) == IF s = "" THEN "" ELSE LowerChar(SubSeq(s, 1, 1)) \o lower(SubSeq(s, 2, Len(s)))

UpperChar(c) ==
    IF c \in Chars(LowerLetters)
    THEN LET i == CHOOSE k \in 1..Len(LowerLetters) : SubSeq(LowerLetters, k, k) = c
         IN  SubSeq(UpperLetters, i, i)
    ELSE c

RECURSIVE upper(_)
upper(s) == IF s = "" THEN "" ELSE UpperChar(SubSeq(s, 1, 1)) \o upper(SubSeq(s, 2, Len(s)))
capitalize(s) == IF s = "" THEN "" ELSE UpperChar(SubSeq(s, 1, 1)) \o SubSeq(s, 2, Len(s))

\* s has the literal w at position i
LitAt(s, i, w) == i >= 1 /\ i + Len(w) - 1 <= Len(s) /\ SubSeq(s, i, i + Len(w) - 1) = w
\* \b between positions i-1 and i
Boundary(s, i) == (At(s, i - 1) \in WordChars) # (At(s, i) \in WordChars)
\* every character of s[i..j] is in class cls (true of the empty range)
AllIn(s, i, j, cls) == \A k \in i..j : At(s, k) \in cls
Contains(s, w) == \E i \in 1..Len(s) : LitAt(s, i, w)

\* re.search(r'\b(w1|w2|...)\b', s)
SearchWords(s, ws) ==
    \E w \in ws : \E i \in 1..Len(s) :
        LitAt(s, i, w) /\ Boundary(s, i) /\ Boundary(s, i + Len(w))

\* re.search(r'\b(a)\s+(b)\b', s)
SearchPhrase(s, a, b) ==
    \E i \in 1..Len(s) : \E j \in (i + Len(a) + 1)..Len(s) :
        /\ LitAt(s, i, a) /\ Boundary(s, i)
        /\ AllIn(s, i + Len(a), j - 1, Whitespace)
        /\ LitAt(s, j, b) /\ Boundary(s, j + Len(b))

\* re.search(r'\b(a\s+.*\s+b)\b', s): '.' matches anything but a newline
SearchSpan(s, a, b) ==
    \E i \in 1..Len(s) : \E j \in (i + Len(a) + 2)..Len(s) :
        /\ LitAt(s, i, a) /\ Boundary(s, i)
        /\ \E p \in (i + Len(a))..(j - 2) : \E q \in (p + 1)..(j - 1) :
              /\ AllIn(s, i + Len(a), p, Whitespace)
              /\ \A k \in (p + 1)..(q - 1) : At(s, k) # "\n"
              /\ AllIn(s, q, j - 1, Whitespace)
        /\ LitAt(s, j, b) /\ Boundary(s, j + Len(b))

\* re.search(r'\b(or|and)\s+C+\s*=\s*C+', s) for a character class C (\d or \w)
SearchTautology(s, cls) ==
    \E w \in {"or", "and"} : \E i \in 1..Len(s) :
        /\ LitAt(s, i, w) /\ Boundary(s, i)
        /\ \E j \in (i + Len(w) + 1)..Len(s) : \E k \in j..Len(s) :
           \E m \in (k + 1)..Len(s) : \E n \in (m + 1)..Len(s) :
              /\ AllIn(s, i + Len(w), j - 1, Whitespace)
              /\ AllIn(s, j, k, cls)
              /\ AllIn(s, k + 1, m - 1, Whitespace)
              /\ At(s, m) = "="
              /\ AllIn(s, m + 1, n - 1, Whitespace)
              /\ At(s, n) \in cls

\* re.search(r'\<tag\b[^>]*\>', s)
SearchTag(s, tag) ==
    \E i \in 1..Len(s) : \E j \in (i + Len(tag) + 1)..Len(s) :
        /\ LitAt(s, i, "<" \o tag) /\ Boundary(s, i + 1 + Len(tag))
        /\ \A k \in (i + 1 + Len(tag))..(j - 1) : At(s, k) # ">"
        /\ At(s, j) = ">"

\* re.search(r'\<tag\b[^>]*\>.*?\</tag\>', s)
SearchElement(s, tag) ==
    \E i \in 1..Len(s) : \E j \in (i + Len(tag) + 1)..Len(s) : \E c \in (j + 1)..Len(s) :
        /\ LitAt(s, i, "<" \o tag) /\ Boundary(s, i + 1 + Len(tag))
        /\ \A k \in (i + 1 + Len(tag))..(j - 1) : At(s, k) # ">"
        /\ At(s, j) = ">"
        /\ \A k \in (j + 1)..(c - 1) : At(s, k) # "\n"
        /\ LitAt(s, c, "</" \o tag \o ">")

\* re.search(r'\b(w1|w2|...)\s*[c1c2...]', s)
SearchProbe(s, ws, follow) ==
    \E w \in ws : \E i \in 1..Len(s) : \E j \in (i + Len(w))..Len(s) :
        /\ LitAt(s, i, w) /\ Boundary(s, i)
        /\ AllIn(s, i + Len(w), j - 1, Whitespace)
        /\ At(s, j) \in follow

(***************************************************************************)
(* SQLInjectionProtectionMiddleware.  Each rule table is the sequence of   *)
(* the results of re.search(pattern, value_lower) for its patterns, in the *)
(* order of the source.                                                    *)
(***************************************************************************)
Quotes == {"'", "\""}
Operators == {"=", "<", ">"}
Accounts == {"admin", "administrator", "root", "sa", "guest", "test", "demo"}
Credentials == {"password", "passwd", "pwd", "secret", "key", "token"}
Logins == {"login", "logon", "signin", "signon"}
Auths == {"auth", "authentication", "authorization"}

\* the sql rules without the rule for angle brackets
sql_patterns_NoAngleBrackets(v) == <<
    SearchWords(v, {"union", "select", "insert", "update", "delete", "drop",
                    "create", "alter", "exec", "execute"}),
    SearchTautology(v, Digits),
    SearchTautology(v, WordChars),
    \E w \in {"'", "\"", ";", "--", "/*", "*/"} : Contains(v, w),
    SearchWords(v, {"script", "javascript", "vbscript", "onload", "onerror"}),
    FALSE,
    \/ SearchPhrase(v, "union", "select") \/ SearchSpan(v, "select", "from")
    \/ SearchPhrase(v, "insert", "into") \/ SearchSpan(v, "update", "set")
    \/ SearchPhrase(v, "delete", "from"),
    \/ SearchWords(v, {"load_file"}) \/ SearchPhrase(v, "into", "outfile")
    \/ SearchPhrase(v, "into", "dumpfile"),
    SearchWords(v, {"concat", "substring", "ascii", "char", "hex", "unhex"}),
    SearchWords(v, {"version", "user", "database", "schema", "table_name", "column_name"})
>>

sql_patterns(v) == <<
    SearchWords(v, {"union", "select", "insert", "update", "delete", "drop",
                    "create", "alter", "exec", "execute"}),
    SearchTautology(v, Digits),
    SearchTautology(v, WordChars),
    \E w \in {"'", "\"", ";", "--", "/*", "*/"} : Contains(v, w),
    SearchWords(v, {"script", "javascript", "vbscript", "onload", "onerror"}),
    \E w \in {"<", ">", "&lt;", "&gt;"} : Contains(v, w),
    \/ SearchPhrase(v, "union", "select") \/ SearchSpan(v, "select", "from")
    \/ SearchPhrase(v, "insert", "into") \/ SearchSpan(v, "update", "set")
    \/ SearchPhrase(v, "delete", "from"),
    \/ SearchWords(v, {"load_file"}) \/ SearchPhrase(v, "into", "outfile")
    \/ SearchPhrase(v, "into", "dumpfile"),
    SearchWords(v, {"concat", "substring", "ascii", "char", "hex", "unhex"}),
    SearchWords(v, {"version", "user", "database", "schema", "table_name", "column_name"})
>>

xss_patterns(v) == <<
    SearchElement(v, "script"),
    SearchElement(v, "iframe"),
    SearchElement(v, "object"),
    SearchTag(v, "embed"),
    SearchTag(v, "link"),
    SearchTag(v, "meta"),
    SearchElement(v, "style"),
    SearchTag(v, "link"),
    SearchTag(v, "img"),
    SearchElement(v, "svg")
>>

auth_bypass_patterns(v) == <<
    SearchProbe(v, Accounts, Quotes),
    SearchProbe(v, Credentials, Quotes),
    SearchProbe(v, Logins, Quotes),
    SearchProbe(v, Auths, Quotes),
    SearchProbe(v, Accounts, Operators),
    SearchProbe(v, Credentials, Operators)
>>

AnyOf(results) == \E i \in DOMAIN results : results[i]

_check_for_attacks(value) ==
    IF value = "" THEN FALSE
    ELSE LET value_lower == lower(value)
         IN  \/ AnyOf(sql_patterns(value_lower))
             \/ AnyOf(xss_patterns(value_lower))
             \/ AnyOf(auth_bypass_patterns(value_lower))

\* the place where _check_for_attacks returns: the guard on an empty value, one of the
\* three loops in the order of the source, or the last line
ReturnsAt(value) ==
    IF value = "" THEN "not value"
    ELSE LET value_lower == lower(value)
         IN  IF AnyOf(sql_patterns(value_lower)) THEN "sql_patterns"
             ELSE IF AnyOf(xss_patterns(value_lower)) THEN "xss_patterns"
             ELSE IF AnyOf(auth_bypass_patterns(value_lower)) THEN "auth_bypass_patterns"
             ELSE "end"

(***************************************************************************)
(* A QueryDict is a sequence of entries [name, values] with distinct       *)
(* names, in insertion order; dict(QueryDict) maps each name to the list   *)
(* of its values.                                                          *)
(***************************************************************************)
Names(d) == {d[i].name : i \in DOMAIN d}
Has(d, name) == name \in Names(d)
ValuesOf(d, name) == d[CHOOSE i \in DOMAIN d : d[i].name = name].values
\* QueryDict.get: the last value of the list, None ("") when the key is absent
Get(d, name) ==
    IF Has(d, name) /\ Len(ValuesOf(d, name)) > 0
    THEN ValuesOf(d, name)[Len(ValuesOf(d, name))] ELSE ""

\* dict.update: a key already present keeps its place and takes the new value
DictSet(d, e) ==
    IF Has(d, e.name)
    THEN [i \in DOMAIN d |-> IF d[i].name = e.name THEN e ELSE d[i]]
    ELSE Append(d, e)

RECURSIVE DictUpdate(_, _)
DictUpdate(d, q) == IF q = <<>> THEN d ELSE DictUpdate(DictSet(d, Head(q)), Tail(q))

excluded_paths == <<"/static/", "/media/", "/favicon.ico", "/robots.txt">>
startswith(s, prefix) == Len(prefix) <= Len(s) /\ SubSeq(s, 1, Len(prefix)) = prefix

LogValueLimit == 100
None == [status |-> 0, by |-> "none", body |-> ""]
\* HttpResponseForbidden("..."): the body is the fixed message of the source, in English
HttpResponseForbidden ==
    [status |-> 403, by |-> "middleware", body |-> "Access denied: attack attempt detected"]

\* a getattr that never finds the attribute
getattr_Default(obj, name, default) == default

\* getattr(obj, name, default)
getattr(obj, name, default) ==
    IF \E a \in obj : a[1] = name THEN (CHOOSE a \in obj : a[1] = name)[2] ELSE default

_log_attack_attempt(req, param_name, param_value) ==
    [Parameter |-> param_name,
     Value |-> SubSeq(param_value, 1, IF Len(param_value) < LogValueLimit
                                      THEN Len(param_value) ELSE LogValueLimit)]

\* all_params = {}; if request.GET: update(dict(GET)); if request.POST: update(dict(POST))
all_params(req) ==
    IF req.GET = <<>> THEN req.POST
    ELSE IF req.POST = <<>> THEN req.GET
    ELSE DictUpdate(req.GET, req.POST)

\* The texts the requests of this model carry, and _check_for_attacks of each
Values == {"", "ok", "1' OR '1'='1", "'; DROP TABLE x; --"}
Comments == {"ok", "1' OR '1'='1"}
StatusTexts == {"1"}
TypeTexts == {"", "1", "2"}
CategoryTexts == {"", "1", "2"}
SubcategoryTexts == {"", "1", "2"}
AmountTexts == {"0.00", "0.01", "0.02"}
DateTexts == {"2025-10-04"}
StatusNameTexts == {"", "Business", " Business"}
TypeNameTexts == {"", "Income"}
CategoryNameTexts == {"", "Infra", "Ads"}
SubcategoryNameTexts == {"", "VPS"}
\* what the record form is filled with when a stored record is read back
RoundTripDates == {"2025-10-04", "2025-01-31"}
RoundTripAmounts == {"0.00", "0.02", "5", "5.5", "1000.00"}
RoundTripComments == {"", "ok", " ok "}
NameTexts == StatusNameTexts \cup TypeNameTexts \cup CategoryNameTexts \cup SubcategoryNameTexts
Texts == Values \cup Comments \cup StatusTexts \cup TypeTexts \cup CategoryTexts
         \cup SubcategoryTexts \cup AmountTexts \cup DateTexts \cup NameTexts
         \cup RoundTripDates \cup RoundTripAmounts \cup RoundTripComments
Classified == [v \in Texts |-> _check_for_attacks(v)]
IsAttack(value) == IF value \in Texts THEN Classified[value] ELSE _check_for_attacks(value)

\* the places <<i, j>> of the values the two nested loops find to be attacks
Offending(params) ==
    {p \in UNION {{<<i, j>> : j \in DOMAIN params[i].values} : i \in DOMAIN params} :
        IsAttack(params[p[1]].values[p[2]])}
Before(p, q) == p[1] < q[1] \/ (p[1] = q[1] /\ p[2] <= q[2])

\* loops that put the value they reject into the body of the response
Inspect_EchoesValue(req, params) ==
    IF \A i \in DOMAIN params : \A j \in DOMAIN params[i].values : ~IsAttack(params[i].values[j])
    THEN [response |-> None, log |-> <<>>]
    ELSE LET first == CHOOSE p \in Offending(params) : \A q \in Offending(params) : Before(p, q)
         IN  [response |-> [HttpResponseForbidden EXCEPT
                               !.body = @ \o ": " \o params[first[1]].values[first[2]]],
              log |-> <<_log_attack_attempt(req, params[first[1]].name,
                                            params[first[1]].values[first[2]])>>]

\* loops that go through every value and log the last attack they met
Inspect_LastOffending(req, params) ==
    IF \A i \in DOMAIN params : \A j \in DOMAIN params[i].values : ~IsAttack(params[i].values[j])
    THEN [response |-> None, log |-> <<>>]
    ELSE LET last == CHOOSE p \in Offending(params) : \A q \in Offending(params) : Before(q, p)
         IN  [response |-> HttpResponseForbidden,
              log |-> <<_log_attack_attempt(req, params[last[1]].name,
                                            params[last[1]].values[last[2]])>>]

\* the loops of process_request over all_params: they return at the first attack
Inspect(req, params) ==
    IF \A i \in DOMAIN params : \A j \in DOMAIN params[i].values : ~IsAttack(params[i].values[j])
    THEN [response |-> None, log |-> <<>>]
    ELSE LET first == CHOOSE p \in Offending(params) : \A q \in Offending(params) : Before(p, q)
         IN  [response |-> HttpResponseForbidden,
              log |-> <<_log_attack_attempt(req, params[first[1]].name,
                                            params[first[1]].values[first[2]])>>]

\* a process_request without the list of excluded paths
process_request_NoExcludedPaths(req, conf) ==
    IF getattr(conf, "DISABLE_SECURITY_MIDDLEWARE", FALSE) THEN [response |-> None, log |-> <<>>]
    ELSE CHOOSE r \in {Inspect(req, params) : params \in {all_params(req)}} : TRUE

\* process_request: the response (None to go on) and the audit entries emitted
process_request(req, conf) ==
    IF getattr(conf, "DISABLE_SECURITY_MIDDLEWARE", FALSE) THEN [response |-> None, log |-> <<>>]
    ELSE IF \E i \in DOMAIN excluded_paths : startswith(req.path, excluded_paths[i])
    THEN [response |-> None, log |-> <<>>]
    ELSE CHOOSE r \in {Inspect(req, params) : params \in {all_params(req)}} : TRUE

(***************************************************************************)
(* Field parsing of django.forms, as the forms of forms.py use it.         *)
(***************************************************************************)
DigitString == "0123456789"
DigitVal(c) == (CHOOSE k \in 1..Len(DigitString) : SubSeq(DigitString, k, k) = c) - 1
IsInt(text) == text # "" /\ AllIn(text, 1, Len(text), Digits)
RECURSIVE int(_)
int(text) ==
    IF text = "" THEN 0
    ELSE 10 * int(SubSeq(text, 1, Len(text) - 1)) + DigitVal(SubSeq(text, Len(text), Len(text)))

\* DecimalField(max_digits=12, decimal_places=2): the text as hundredths, or an error code
MaxDigits == 12
DecimalPlaces == 2
DotAt(text) == IF Contains(text, ".") THEN CHOOSE i \in 1..Len(text) : At(text, i) = "." ELSE 0
DecimalField(text) ==
    LET dot == DotAt(text)
        whole == IF dot = 0 THEN text ELSE SubSeq(text, 1, dot - 1)
        frac == IF dot = 0 THEN "" ELSE SubSeq(text, dot + 1, Len(text))
    IN  IF text = "" THEN [ok |-> FALSE, code |-> "required"]
        ELSE IF ~(IsInt(whole) /\ (dot = 0 \/ frac = "" \/ IsInt(frac)))
        THEN [ok |-> FALSE, code |-> "invalid"]
        ELSE IF Len(frac) > DecimalPlaces
        THEN [ok |-> FALSE, code |-> "max_decimal_places"]
        ELSE IF Len(whole) + Len(frac) > MaxDigits
        THEN [ok |-> FALSE, code |-> "max_digits"]
        ELSE [ok |-> TRUE,
              value |-> 100 * int(whole) + (IF Len(frac) = 1 THEN 10 * int(frac) ELSE int(frac))]

\* DateField(input_formats=['%Y-%m-%d'])
DateField(text) ==
    IF text = "" THEN [ok |-> FALSE, code |-> "required"]
    ELSE IF /\ Len(text) = 10 /\ At(text, 5) = "-" /\ At(text, 8) = "-"
            /\ AllIn(text, 1, 4, Digits) /\ AllIn(text, 6, 7, Digits) /\ AllIn(text, 9, 10, Digits)
            /\ int(SubSeq(text, 6, 7)) \in 1..12 /\ int(SubSeq(text, 9, 10)) \in 1..28
    THEN [ok |-> TRUE, value |-> text]
    ELSE [ok |-> FALSE, code |-> "invalid"]

\* ModelChoiceField over the queryset qs (a set of primary keys)
ModelChoiceField(text, qs) ==
    IF text = "" THEN [ok |-> FALSE, code |-> "required"]
    ELSE IF IsInt(text) /\ int(text) \in qs THEN [ok |-> TRUE, value |-> int(text)]
    ELSE [ok |-> FALSE, code |-> "invalid_choice"]

\* str.strip(): the text without leading and trailing whitespace
RECURSIVE strip(_)
strip(text) ==
    IF text = "" THEN ""
    ELSE IF At(text, 1) \in Whitespace THEN strip(SubSeq(text, 2, Len(text)))
    ELSE IF At(text, Len(text)) \in Whitespace THEN strip(SubSeq(text, 1, Len(text) - 1))
    ELSE text

\* CharField(max_length, strip=True, required): the name of a directory form
NameField(text, limit) ==
    IF strip(text) = "" THEN [ok |-> FALSE, code |-> "required"]
    ELSE IF Len(strip(text)) > limit THEN [ok |-> FALSE, code |-> "max_length"]
    ELSE [ok |-> TRUE, value |-> strip(text)]

\* CharField(required=False, strip=True) of a TextField(blank=True): the comment
TextField(text) == [ok |-> TRUE, value |-> strip(text)]

(***************************************************************************)
(* models.py.  MinValueValidator(0.01) holds the float 0.01, which is      *)
(* 0.01000000000000000020816681711721685...: one hundredth and a positive  *)
(* residue.  Python compares a Decimal with a float exactly.               *)
(***************************************************************************)
limit_value == [hundredths |-> 1, residue |-> 1]
\* a validator that lets every amount pass
MinValueValidator_Off(a) == {}

\* MinValueValidator.compare(a, b): a < b, a in hundredths
MinValueValidator(a) ==
    IF a < limit_value.hundredths \/ (a = limit_value.hundredths /\ limit_value.residue > 0)
    THEN {<<"amount", "min_value">>} ELSE {}

\* the two messages of clean(), by what they say
SubcategoryMismatch == <<"__all__", "subcategory does not belong to category">>
CategoryMismatch == <<"__all__", "category does not belong to type">>

\* a clean() that checks the subcategory against the category and nothing else
CashFlowRecord_clean_FirstRuleOnly(self, cats, subs) ==
    IF /\ self.subcategory # 0 /\ self.category # 0
       /\ subs[self.subcategory].category # self.category
    THEN {SubcategoryMismatch}
    ELSE {}

\* CashFlowRecord.clean on an instance whose unset relations are 0: the errors raised
CashFlowRecord_clean(self, cats, subs) ==
    IF /\ self.subcategory # 0 /\ self.category # 0
       /\ subs[self.subcategory].category # self.category
    THEN {SubcategoryMismatch}
    ELSE IF /\ self.category # 0 /\ self.type # 0
            /\ cats[self.category].type # self.type
    THEN {CategoryMismatch}
    ELSE {}

(***************************************************************************)
(* forms.py: CashFlowRecordForm.  data is request.POST, pk the instance's  *)
(* primary key (0: a new record).                                          *)
(***************************************************************************)
\* a CashFlowRecord not yet filled in (0, "": no value)
NewRecord ==
    [date |-> "", status |-> 0, type |-> 0, category |-> 0, subcategory |-> 0, amount |-> 0,
     comment |-> ""]
Instance(pk) == IF pk = 0 THEN NewRecord ELSE records[pk]

\* __init__: the querysets of the four choice fields
category_queryset(pk) ==
    IF pk # 0 /\ Instance(pk).type # 0
    THEN {c \in DOMAIN categories : categories[c].type = Instance(pk).type}
    ELSE DOMAIN categories

subcategory_queryset(data, pk) ==
    IF Has(data, "category") /\ IsInt(Get(data, "category"))
    THEN {u \in DOMAIN subcategories : subcategories[u].category = int(Get(data, "category"))}
    ELSE IF pk # 0 /\ Instance(pk).category # 0
    THEN {u \in DOMAIN subcategories : subcategories[u].category = Instance(pk).category}
    ELSE {}

\* _clean_fields: each field's result
RecordFields(data, pk) ==
    [date |-> DateField(Get(data, "date")),
     status |-> ModelChoiceField(Get(data, "status"), DOMAIN statuses),
     type |-> ModelChoiceField(Get(data, "type"), DOMAIN types),
     category |-> ModelChoiceField(Get(data, "category"), category_queryset(pk)),
     subcategory |-> ModelChoiceField(Get(data, "subcategory"), subcategory_queryset(data, pk)),
     amount |-> DecimalField(Get(data, "amount")),
     comment |-> TextField(Get(data, "comment"))]

FieldErrors(fields) == {<<f, fields[f].code>> : f \in {g \in DOMAIN fields : ~fields[g].ok}}

\* CashFlowRecordForm.clean on cleaned_data (a field that failed is absent: 0)
CashFlowRecordForm_clean(cleaned, cats, subs) ==
    IF /\ cleaned.subcategory # 0 /\ cleaned.category # 0
       /\ subs[cleaned.subcategory].category # cleaned.category
    THEN {SubcategoryMismatch}
    ELSE IF /\ cleaned.category # 0 /\ cleaned.type # 0
            /\ cats[cleaned.category].type # cleaned.type
    THEN {CategoryMismatch}
    ELSE {}

Cleaned(fields, f) == IF fields[f].ok THEN fields[f].value ELSE 0

\* construct_instance: the cleaned fields written over the instance
construct_instance(fields, pk) ==
    [f \in DOMAIN NewRecord |-> IF fields[f].ok THEN fields[f].value ELSE Instance(pk)[f]]

\* the errors of _clean_form and _post_clean, the fields cleaned
FormErrors(fields, pk) ==
    FieldErrors(fields)
    \cup CashFlowRecordForm_clean([f \in {"type", "category", "subcategory"} |-> Cleaned(fields, f)],
                                  categories, subcategories)
    \cup (IF fields.amount.ok THEN MinValueValidator(fields.amount.value) ELSE {})
    \cup CashFlowRecord_clean(construct_instance(fields, pk), categories, subcategories)

\* form.errors after full_clean: _clean_fields, _clean_form, _post_clean
CashFlowRecordForm_errors(data, pk) ==
    UNION {FormErrors(fields, pk) : fields \in {RecordFields(data, pk)}}

\* a save() that writes the instance as it was loaded
CashFlowRecordForm_save_Instance(data, pk) == Instance(pk)

\* form.save(): the row written
CashFlowRecordForm_save(data, pk) == construct_instance(RecordFields(data, pk), pk)

\* max_length of the name of each model
max_length == [Status |-> 50, Type |-> 50, Category |-> 100, Subcategory |-> 100]

\* Model.validate_unique for name (unique=True): another row of the table has the name
unique(rows, pk, name) ==
    IF \E k \in DOMAIN rows : k # pk /\ rows[k].name = name
    THEN {<<"name", "unique">>} ELSE {}

\* a Subcategory whose Meta declares no unique_together
unique_together_Off(pk, name, category) == {}

\* Model.validate_unique for unique_together = ['name', 'category'] of Subcategory
unique_together(pk, name, category) ==
    IF \E k \in DOMAIN subcategories :
          k # pk /\ subcategories[k].name = name /\ subcategories[k].category = category
    THEN {<<"__all__", "unique_together">>} ELSE {}

\* the fields of the directory forms after _clean_fields
DirectoryFields(data, model) == [name |-> NameField(Get(data, "name"), max_length[model])]
CategoryFields(data) ==
    [name |-> NameField(Get(data, "name"), max_length.Category),
     type |-> ModelChoiceField(Get(data, "type"), DOMAIN types)]
SubcategoryFields(data) ==
    [name |-> NameField(Get(data, "name"), max_length.Subcategory),
     category |-> ModelChoiceField(Get(data, "category"), DOMAIN categories)]

\* StatusForm / TypeForm / CategoryForm / SubcategoryForm: form.errors, pk the instance's
\* primary key (0: a new row); _post_clean validates uniqueness of the fields that passed
DirectoryForm_errors(data, model, rows, pk) ==
    UNION {FieldErrors(f) \cup (IF f.name.ok THEN unique(rows, pk, f.name.value) ELSE {}) :
           f \in {DirectoryFields(data, model)}}
CategoryForm_errors(data, pk) ==
    UNION {FieldErrors(f) \cup (IF f.name.ok THEN unique(categories, pk, f.name.value) ELSE {}) :
           f \in {CategoryFields(data)}}
SubcategoryForm_errors(data, pk) ==
    UNION {FieldErrors(f)
           \cup (IF f.name.ok /\ f.category.ok
                 THEN unique_together(pk, f.name.value, f.category.value) ELSE {}) :
           f \in {SubcategoryFields(data)}}

\* form.save() of the directory forms: the row written
StatusForm_save(data) == [name |-> DirectoryFields(data, "Status").name.value]
TypeForm_save(data) == [name |-> DirectoryFields(data, "Type").name.value]
CategoryForm_save(data) ==
    [name |-> CategoryFields(data).name.value, type |-> CategoryFields(data).type.value]
SubcategoryForm_save(data) ==
    [name |-> SubcategoryFields(data).name.value, category |-> SubcategoryFields(data).category.value]

(***************************************************************************)
(* The store.  on_delete=CASCADE: a delete takes every row that refers to  *)
(* a deleted row.                                                          *)
(***************************************************************************)
TypeIds == {1, 2}
CategoryIds == {1, 2}
SubcategoryIds == {1, 2}
StatusIds == {1}
MaxRecords == 1
RecordIds == 1..MaxRecords

Restrict(f, S) == [x \in S |-> f[x]]
Put(f, k, v) == [x \in DOMAIN f \cup {k} |-> IF x = k THEN v ELSE f[x]]

\* a delete that takes the taxonomy rows below but leaves the records that refer to them
Cascade_KeepsRecords(S, T, C, U, R) ==
    LET C2 == C \cup {c \in DOMAIN categories : categories[c].type \in T}
        U2 == U \cup {u \in DOMAIN subcategories : subcategories[u].category \in C2}
    IN  /\ statuses' = Restrict(statuses, DOMAIN statuses \ S)
        /\ types' = Restrict(types, DOMAIN types \ T)
        /\ categories' = Restrict(categories, DOMAIN categories \ C2)
        /\ subcategories' = Restrict(subcategories, DOMAIN subcategories \ U2)
        /\ records' = Restrict(records, DOMAIN records \ R)

\* Collector.delete for the rows gone: statuses S, types T, categories C, subcategories U, records R
Cascade(S, T, C, U, R) ==
    LET C2 == C \cup {c \in DOMAIN categories : categories[c].type \in T}
        U2 == U \cup {u \in DOMAIN subcategories : subcategories[u].category \in C2}
        R2 == R \cup {r \in DOMAIN records :
                        \/ records[r].status \in S \/ records[r].type \in T
                        \/ records[r].category \in C2 \/ records[r].subcategory \in U2}
    IN  /\ statuses' = Restrict(statuses, DOMAIN statuses \ S)
        /\ types' = Restrict(types, DOMAIN types \ T)
        /\ categories' = Restrict(categories, DOMAIN categories \ C2)
        /\ subcategories' = Restrict(subcategories, DOMAIN subcategories \ U2)
        /\ records' = Restrict(records, DOMAIN records \ R2)

(***************************************************************************)
(* views.py.  Every view answers one request: render (200), redirect       *)
(* (302), or get_object_or_404 (404).                                      *)
(***************************************************************************)
Render == [status |-> 200, by |-> "view", body |-> "page"]
Redirect == [status |-> 302, by |-> "view", body |-> ""]
Http404 == [status |-> 404, by |-> "view", body |-> "Not Found"]

record_create(req) ==
    IF req.method = "POST" /\ CashFlowRecordForm_errors(req.POST, 0) = {}
    THEN /\ \E pk \in RecordIds \ DOMAIN records :
               records' = Put(records, pk, CashFlowRecordForm_save(req.POST, 0))
         /\ resp' = Redirect
         /\ UNCHANGED <<statuses, types, categories, subcategories>>
    ELSE resp' = Render /\ UNCHANGED store

record_edit(req, pk) ==
    IF pk \notin DOMAIN records THEN resp' = Http404 /\ UNCHANGED store
    ELSE IF req.method = "POST" /\ CashFlowRecordForm_errors(req.POST, pk) = {}
    THEN /\ records' = Put(records, pk, CashFlowRecordForm_save(req.POST, pk))
         /\ resp' = Redirect
         /\ UNCHANGED <<statuses, types, categories, subcategories>>
    ELSE resp' = Render /\ UNCHANGED store

\* a record_delete that deletes whatever the method
record_delete_AnyMethod(req, pk) ==
    IF pk \notin DOMAIN records THEN resp' = Http404 /\ UNCHANGED store
    ELSE Cascade({}, {}, {}, {}, {pk}) /\ resp' = Redirect

record_delete(req, pk) ==
    IF pk \notin DOMAIN records THEN resp' = Http404 /\ UNCHANGED store
    ELSE IF req.method = "POST"
    THEN Cascade({}, {}, {}, {}, {pk}) /\ resp' = Redirect
    ELSE resp' = Render /\ UNCHANGED store

status_create(req) ==
    IF req.method = "POST" /\ DirectoryForm_errors(req.POST, "Status", statuses, 0) = {}
    THEN /\ \E pk \in StatusIds \ DOMAIN statuses : statuses' = Put(statuses, pk, StatusForm_save(req.POST))
         /\ resp' = Redirect
         /\ UNCHANGED <<types, categories, subcategories, records>>
    ELSE resp' = Render /\ UNCHANGED store

status_edit(req, pk) ==
    IF pk \notin DOMAIN statuses THEN resp' = Http404 /\ UNCHANGED store
    ELSE IF req.method = "POST" /\ DirectoryForm_errors(req.POST, "Status", statuses, pk) = {}
    THEN /\ statuses' = Put(statuses, pk, StatusForm_save(req.POST))
         /\ resp' = Redirect
         /\ UNCHANGED <<types, categories, subcategories, records>>
    ELSE resp' = Render /\ UNCHANGED store

status_delete(req, pk) ==
    IF pk \notin DOMAIN statuses THEN resp' = Http404 /\ UNCHANGED store
    ELSE IF req.method = "POST"
    THEN Cascade({pk}, {}, {}, {}, {}) /\ resp' = Redirect
    ELSE resp' = Render /\ UNCHANGED store

type_create(req) ==
    IF req.method = "POST" /\ DirectoryForm_errors(req.POST, "Type", types, 0) = {}
    THEN /\ \E pk \in TypeIds \ DOMAIN types : types' = Put(types, pk, TypeForm_save(req.POST))
         /\ resp' = Redirect
         /\ UNCHANGED <<statuses, categories, subcategories, records>>
    ELSE resp' = Render /\ UNCHANGED store

type_edit(req, pk) ==
    IF pk \notin DOMAIN types THEN resp' = Http404 /\ UNCHANGED store
    ELSE IF req.method = "POST" /\ DirectoryForm_errors(req.POST, "Type", types, pk) = {}
    THEN /\ types' = Put(types, pk, TypeForm_save(req.POST))
         /\ resp' = Redirect
         /\ UNCHANGED <<statuses, categories, subcategories, records>>
    ELSE resp' = Render /\ UNCHANGED store

type_delete(req, pk) ==
    IF pk \notin DOMAIN types THEN resp' = Http404 /\ UNCHANGED store
    ELSE IF req.method = "POST"
    THEN Cascade({}, {pk}, {}, {}, {}) /\ resp' = Redirect
    ELSE resp' = Render /\ UNCHANGED store

category_create(req) ==
    IF req.method = "POST" /\ CategoryForm_errors(req.POST, 0) = {}
    THEN /\ \E pk \in CategoryIds \ DOMAIN categories : categories' = Put(categories, pk, CategoryForm_save(req.POST))
         /\ resp' = Redirect
         /\ UNCHANGED <<statuses, types, subcategories, records>>
    ELSE resp' = Render /\ UNCHANGED store

category_edit(req, pk) ==
    IF pk \notin DOMAIN categories THEN resp' = Http404 /\ UNCHANGED store
    ELSE IF req.method = "POST" /\ CategoryForm_errors(req.POST, pk) = {}
    THEN /\ categories' = Put(categories, pk, CategoryForm_save(req.POST))
         /\ resp' = Redirect
         /\ UNCHANGED <<statuses, types, subcategories, records>>
    ELSE resp' = Render /\ UNCHANGED store

category_delete(req, pk) ==
    IF pk \notin DOMAIN categories THEN resp' = Http404 /\ UNCHANGED store
    ELSE IF req.method = "POST"
    THEN Cascade({}, {}, {pk}, {}, {}) /\ resp' = Redirect
    ELSE resp' = Render /\ UNCHANGED store

subcategory_create(req) ==
    IF req.method = "POST" /\ SubcategoryForm_errors(req.POST, 0) = {}
    THEN /\ \E pk \in SubcategoryIds \ DOMAIN subcategories : subcategories' = Put(subcategories, pk, SubcategoryForm_save(req.POST))
         /\ resp' = Redirect
         /\ UNCHANGED <<statuses, types, categories, records>>
    ELSE resp' = Render /\ UNCHANGED store

subcategory_edit(req, pk) ==
    IF pk \notin DOMAIN subcategories THEN resp' = Http404 /\ UNCHANGED store
    ELSE IF req.method = "POST" /\ SubcategoryForm_errors(req.POST, pk) = {}
    THEN /\ subcategories' = Put(subcategories, pk, SubcategoryForm_save(req.POST))
         /\ resp' = Redirect
         /\ UNCHANGED <<statuses, types, categories, records>>
    ELSE resp' = Render /\ UNCHANGED store

subcategory_delete(req, pk) ==
    IF pk \notin DOMAIN subcategories THEN resp' = Http404 /\ UNCHANGED store
    ELSE IF req.method = "POST"
    THEN Cascade({}, {}, {}, {pk}, {}) /\ resp' = Redirect
    ELSE resp' = Render /\ UNCHANGED store

(***************************************************************************)
(* urls.py and the requests served.                                        *)
(***************************************************************************)
Methods == {"GET", "POST"}
UrlPks == {1, 2}
IdText(n) == SubSeq(DigitString, n + 1, n + 1)
Url(prefix, pk, suffix) == prefix \o IdText(pk) \o suffix

Route(path, view, pk) == [path |-> path, view |-> view, pk |-> pk]
urlpatterns ==
    {Route("/record/create/", "record_create", 0),
     Route("/status/create/", "status_create", 0),
     Route("/type/create/", "type_create", 0),
     Route("/category/create/", "category_create", 0),
     Route("/subcategory/create/", "subcategory_create", 0)}
    \cup {Route(Url("/record/", pk, "/edit/"), "record_edit", pk) : pk \in UrlPks}
    \cup {Route(Url("/record/", pk, "/delete/"), "record_delete", pk) : pk \in UrlPks}
    \cup {Route(Url("/status/", pk, "/edit/"), "status_edit", pk) : pk \in UrlPks}
    \cup {Route(Url("/status/", pk, "/delete/"), "status_delete", pk) : pk \in UrlPks}
    \cup {Route(Url("/type/", pk, "/edit/"), "type_edit", pk) : pk \in UrlPks}
    \cup {Route(Url("/type/", pk, "/delete/"), "type_delete", pk) : pk \in UrlPks}
    \cup {Route(Url("/category/", pk, "/edit/"), "category_edit", pk) : pk \in UrlPks}
    \cup {Route(Url("/category/", pk, "/delete/"), "category_delete", pk) : pk \in UrlPks}
    \cup {Route(Url("/subcategory/", pk, "/edit/"), "subcategory_edit", pk) : pk \in UrlPks}
    \cup {Route(Url("/subcategory/", pk, "/delete/"), "subcategory_delete", pk) : pk \in UrlPks}
\* the two lookup routes of urls.py; pk is the type_id / category_id of the path
api_urlpatterns ==
    {Route(Url("/api/categories/", pk, "/"), "get_categories_by_type", pk) : pk \in UrlPks}
    \cup {Route(Url("/api/subcategories/", pk, "/"), "get_subcategories_by_category", pk) :
            pk \in UrlPks}
NoRoute == Route("", "", 0)
\* the URL resolver: the route of each path of urls.py
resolver ==
    [p \in {r.path : r \in urlpatterns \cup api_urlpatterns} |->
        CHOOSE r \in urlpatterns \cup api_urlpatterns : r.path = p]
resolve(path) == IF path \in DOMAIN resolver THEN resolver[path] ELSE NoRoute

Entry(name, text) == [name |-> name, values |-> <<text>>]
Request(method, path, get, post) == [method |-> method, path |-> path, GET |-> get, POST |-> post]
NoRequest == Request("GET", "", <<>>, <<>>)
\* the requests for a form page: its GET, and a POST of each submission
FormRequests(path, data) ==
    {Request("GET", path, <<>>, <<>>)} \cup {Request("POST", path, <<>>, d) : d \in data}

RecordForm(d, st, ty, ca, su, am, co) ==
    <<Entry("date", d), Entry("status", st), Entry("type", ty), Entry("category", ca),
      Entry("subcategory", su), Entry("amount", am), Entry("comment", co)>>
\* the submissions of the record form: every chain with a valid amount, every amount with
\* one chain, and one submission whose comment is an injection attempt
RecordData ==
    {RecordForm(d, st, ty, ca, su, "0.02", "ok") :
        d \in DateTexts, st \in StatusTexts, ty \in TypeTexts, ca \in CategoryTexts,
        su \in SubcategoryTexts}
    \cup {RecordForm("2025-10-04", "1", "1", "1", "1", am, "ok") : am \in AmountTexts}
    \cup {RecordForm("2025-10-04", "1", "1", "1", "1", "0.02", "1' OR '1'='1")}
DirectoryData(names) == {<<Entry("name", n), Entry("description", "")>> : n \in names}
CategoryData == {<<Entry("name", n), Entry("type", ty), Entry("description", "")>> :
                 n \in CategoryNameTexts, ty \in TypeTexts}
SubcategoryData == {<<Entry("name", n), Entry("category", ca), Entry("description", "")>> :
                    n \in SubcategoryNameTexts, ca \in CategoryTexts}
NoData == {<<>>}

FormData(view) ==
    CASE view \in {"record_create", "record_edit"} -> RecordData
      [] view \in {"status_create", "status_edit"} -> DirectoryData(StatusNameTexts)
      [] view \in {"type_create", "type_edit"} -> DirectoryData(TypeNameTexts)
      [] view \in {"category_create", "category_edit"} -> CategoryData
      [] view \in {"subcategory_create", "subcategory_edit"} -> SubcategoryData
      [] OTHER -> NoData
Requests == UNION {FormRequests(r.path, FormData(r.view)) : r \in urlpatterns}

\* a request arrives
Receive ==
    /\ phase = "done"
    /\ \E req \in Requests : request' = req
    /\ phase' = "received"
    /\ resp' = None
    /\ log' = <<>>
    /\ UNCHANGED <<store, settings, candidate, errors>>

\* a pipeline that logs the rejection and runs the view all the same
Served_ViewRuns(view, View) ==
    /\ phase = "received"
    /\ resolve(request.path).view = view
    /\ \E r \in {process_request(request, settings)} : log' = r.log /\ View
    /\ phase' = "done"
    /\ request' = NoRequest
    /\ UNCHANGED <<settings, candidate, errors>>

\* MiddlewareMixin.__call__ of SQLInjectionProtectionMiddleware around the view that
\* urls.py resolves the path to
Served(view, View) ==
    /\ phase = "received"
    /\ resolve(request.path).view = view
    /\ \E r \in {process_request(request, settings)} :
          /\ log' = r.log
          /\ IF r.response # None THEN resp' = r.response /\ UNCHANGED store ELSE View
    /\ phase' = "done"
    /\ request' = NoRequest
    /\ UNCHANGED <<settings, candidate, errors>>

pk_of(req) == resolve(req.path).pk

RecordCreate == Served("record_create", record_create(request))
RecordEdit == Served("record_edit", record_edit(request, pk_of(request)))
RecordDelete == Served("record_delete", record_delete(request, pk_of(request)))
StatusCreate == Served("status_create", status_create(request))
StatusEdit == Served("status_edit", status_edit(request, pk_of(request)))
StatusDelete == Served("status_delete", status_delete(request, pk_of(request)))
TypeCreate == Served("type_create", type_create(request))
TypeEdit == Served("type_edit", type_edit(request, pk_of(request)))
TypeDelete == Served("type_delete", type_delete(request, pk_of(request)))
CategoryCreate == Served("category_create", category_create(request))
CategoryEdit == Served("category_edit", category_edit(request, pk_of(request)))
CategoryDelete == Served("category_delete", category_delete(request, pk_of(request)))
SubcategoryCreate == Served("subcategory_create", subcategory_create(request))
SubcategoryEdit == Served("subcategory_edit", subcategory_edit(request, pk_of(request)))
SubcategoryDelete == Served("subcategory_delete", subcategory_delete(request, pk_of(request)))

\* CashFlowRecord.objects.create(...): Model.save() writes the row; it calls no clean()
StoredAmounts == {2}
CashFlowRecord_objects_create ==
    /\ phase = "done"
    /\ \E pk \in RecordIds \ DOMAIN records, st \in DOMAIN statuses, ty \in DOMAIN types,
          ca \in DOMAIN categories, su \in DOMAIN subcategories, am \in StoredAmounts :
          records' = Put(records, pk, [date |-> "2025-10-04", status |-> st, type |-> ty,
                                       category |-> ca, subcategory |-> su, amount |-> am,
                                       comment |-> "ok"])
    /\ UNCHANGED <<statuses, types, categories, subcategories,
                   settings, request, resp, log, phase, candidate, errors>>

\* Status.objects.create(name=...) and Subcategory.objects.create(name=..., category=...):
\* the row is written unless the unique index refuses it (IntegrityError, nothing written)
Status_objects_create ==
    /\ phase = "done"
    /\ \E pk \in StatusIds \ DOMAIN statuses, n \in StatusNameTexts \ {""} :
          /\ \A k \in DOMAIN statuses : statuses[k].name # n
          /\ statuses' = Put(statuses, pk, [name |-> n])
    /\ UNCHANGED <<types, categories, subcategories, records,
                   settings, request, resp, log, phase, candidate, errors>>
Subcategory_objects_create ==
    /\ phase = "done"
    /\ \E pk \in SubcategoryIds \ DOMAIN subcategories, n \in SubcategoryNameTexts \ {""},
          ca \in DOMAIN categories :
          /\ \A k \in DOMAIN subcategories :
                ~(subcategories[k].name = n /\ subcategories[k].category = ca)
          /\ subcategories' = Put(subcategories, pk, [name |-> n, category |-> ca])
    /\ UNCHANGED <<statuses, types, categories, records,
                   settings, request, resp, log, phase, candidate, errors>>

\* the two types the migration creates
InitialTypes == <<[name |-> "Expense"], [name |-> "Income"]>>

NoCandidate == [kind |-> "none"]

\* The database after the migrations (0004 creates the two types), no request served yet
Init ==
    /\ statuses = <<>>
    /\ types = InitialTypes
    /\ categories = <<>>
    /\ subcategories = <<>>
    /\ records = <<>>
    /\ settings = {}
    /\ request = NoRequest
    /\ resp = None
    /\ log = <<>>
    /\ phase = "done"
    /\ candidate = NoCandidate
    /\ errors = {}

Next ==
    \/ Receive
    \/ RecordCreate \/ RecordEdit \/ RecordDelete
    \/ StatusCreate \/ StatusEdit \/ StatusDelete
    \/ TypeCreate \/ TypeEdit \/ TypeDelete
    \/ CategoryCreate \/ CategoryEdit \/ CategoryDelete
    \/ SubcategoryCreate \/ SubcategoryEdit \/ SubcategoryDelete
    \/ CashFlowRecord_objects_create
    \/ Status_objects_create
    \/ Subcategory_objects_create

Spec == Init /\ [][Next]_vars

(***************************************************************************)
(* The filter on its own: process_request called on one request, as the    *)
(* middleware tests call it.  The request carries a query string and a     *)
(* body of at most one name each, a name with up to MaxValues values.      *)
(***************************************************************************)
MaxValues == 2
ParamNames == {"search", "comment"}
FilterPaths ==
    {"/static/css/style.css", "/media/a.png", "/favicon.ico", "/robots.txt", "/statics/x"}
ValueLists == UNION {[1..n -> Values] : n \in 1..MaxValues}
QueryDicts == {<<>>} \cup {<<[name |-> n, values |-> vs]>> : n \in ParamNames, vs \in ValueLists}
SingleDicts == {<<>>} \cup {<<Entry(n, v)>> : n \in ParamNames, v \in Values}
\* every query string and body on "/"; one value at most under a name on the other paths
FilterRequests ==
    {Request("GET", "/", get, <<>>) : get \in QueryDicts}
    \cup {Request("POST", "/", get, post) : get \in QueryDicts, post \in QueryDicts}
    \cup {Request("GET", path, get, <<>>) : path \in FilterPaths, get \in SingleDicts}
    \cup {Request("POST", path, get, post) :
            path \in FilterPaths, get \in SingleDicts, post \in SingleDicts}
\* settings.py sets the flag or leaves it out
Settings == {{}} \cup {{<<"DISABLE_SECURITY_MIDDLEWARE", b>>} : b \in BOOLEAN}

InitFilter ==
    /\ statuses = <<>>
    /\ types = InitialTypes
    /\ categories = <<>>
    /\ subcategories = <<>>
    /\ records = <<>>
    /\ settings \in Settings
    /\ request \in FilterRequests
    /\ resp = None
    /\ log = <<>>
    /\ phase = "received"
    /\ candidate = NoCandidate
    /\ errors = {}

\* middleware.process_request(request)
ProcessRequest ==
    /\ phase = "received"
    /\ \E r \in {process_request(request, settings)} : resp' = r.response /\ log' = r.log
    /\ phase' = "done"
    /\ UNCHANGED <<store, settings, request, candidate, errors>>

NextFilter == ProcessRequest

SpecFilter == InitFilter /\ [][NextFilter]_vars

(***************************************************************************)
(* Validation on its own: form.is_valid() of a bound CashFlowRecordForm,   *)
(* and full_clean() of a CashFlowRecord instance, over a store of any      *)
(* taxonomy and at most one stored record (the one an edit form is for).   *)
(***************************************************************************)
CategoryNames == <<"Infra", "Ads">>
Rows(ids, S) == UNION {[D -> S] : D \in SUBSET ids}
CandidateAmounts == {0, 1, 2}
Unset(S) == S \cup {0}
FormCandidates ==
    {[kind |-> "form", data |-> d, pk |-> pk] : d \in RecordData, pk \in {0} \cup DOMAIN records}
InstanceCandidates ==
    {[kind |-> "instance",
      instance |-> [status |-> st, type |-> ty, category |-> ca, subcategory |-> su, amount |-> am]] :
        st \in DOMAIN statuses, ty \in Unset(DOMAIN types), ca \in Unset(DOMAIN categories),
        su \in Unset(DOMAIN subcategories), am \in CandidateAmounts}

InitValidate ==
    /\ statuses \in Rows(StatusIds, [name : {"Business"}])
    /\ types = InitialTypes
    /\ \E cs \in Rows(CategoryIds, [type : DOMAIN types]) :
          categories = [c \in DOMAIN cs |-> [name |-> CategoryNames[c], type |-> cs[c].type]]
    /\ subcategories \in Rows(SubcategoryIds, [name : {"VPS"}, category : DOMAIN categories])
    /\ \A u, v \in DOMAIN subcategories : subcategories[u] = subcategories[v] => u = v
    /\ records \in Rows({1}, [date : DateTexts, status : DOMAIN statuses, type : DOMAIN types,
                              category : DOMAIN categories, subcategory : DOMAIN subcategories,
                              amount : StoredAmounts, comment : {"ok"}])
    /\ settings = {}
    /\ request = NoRequest
    /\ resp = None
    /\ log = <<>>
    /\ phase = "received"
    /\ candidate \in FormCandidates \cup InstanceCandidates
    /\ errors = {}

\* form.is_valid(): form.errors is computed by full_clean
is_valid ==
    /\ phase = "received"
    /\ candidate.kind = "form"
    /\ errors' = CashFlowRecordForm_errors(candidate.data, candidate.pk)
    /\ phase' = "done"
    /\ UNCHANGED <<store, settings, request, resp, log, candidate>>

\* Model.full_clean(): clean_fields runs the validators, then clean() runs
full_clean ==
    /\ phase = "received"
    /\ candidate.kind = "instance"
    /\ errors' = MinValueValidator(candidate.instance.amount)
                 \cup CashFlowRecord_clean(candidate.instance, categories, subcategories)
    /\ phase' = "done"
    /\ UNCHANGED <<store, settings, request, resp, log, candidate>>

NextValidate == is_valid \/ full_clean

SpecValidate == InitValidate /\ [][NextValidate]_vars

(***************************************************************************)
(* The classifier on its own: _check_for_attacks of one value.             *)
(***************************************************************************)
Keywords == {"union", "select", "insert", "update", "delete", "drop", "create", "alter", "exec"}
Delimiters == {"'", "\"", ";", "--", "/*", "*/"}
Cases(w) == {w, upper(w), capitalize(w)}

\* a keyword in some letter case with a delimiter after it or before it
KeywordValues ==
    UNION {{c \o d, d \o " " \o c \o " x"} :
           c \in UNION {Cases(w) : w \in Keywords}, d \in Delimiters}
\* a word of an auth_bypass pattern, alone and with a quote or an operator after it
ProbeValues ==
    UNION {{w} \cup {w \o f : f \in Quotes \cup Operators} :
           w \in Accounts \cup Credentials \cup Logins \cup Auths}
\* free text, the English of the safe values of the tests among it
PlainValues ==
    {"", "ok", "123456", "test@example.com", "Payment for VPS server", "Office rent",
     "password reset", "user guide", "current version"}
\* markup
MarkupValues ==
    {"<script>alert(1)</script>", "<SCRIPT>x</SCRIPT>", "see <script src=x></script> here",
     "<img onerror=x>", "<img src=x onerror=alert(1)>",
     "<iframe src=x></iframe>", "<object data=x></object>", "<embed src=x>", "<link rel=x>",
     "<meta charset=x>", "<style>x</style>", "<svg id=x></svg>", "&lt;b&gt;", "a < b"}
\* a word of an auth_bypass pattern with whitespace before what follows it
SpacedProbeValues ==
    {"admin = 1", "token =x", "root <1", "guest > 0", "login 'x", "auth \"x", "pwd  '",
     "key= value", "sa=1 and more"}
ClassifyValues ==
    KeywordValues \cup ProbeValues \cup PlainValues \cup MarkupValues \cup SpacedProbeValues

InitClassify ==
    /\ statuses = <<>>
    /\ types = InitialTypes
    /\ categories = <<>>
    /\ subcategories = <<>>
    /\ records = <<>>
    /\ settings = {}
    /\ request = NoRequest
    /\ resp = None
    /\ log = <<>>
    /\ phase = "received"
    /\ candidate \in {[kind |-> "value", value |-> v] : v \in ClassifyValues}
    /\ errors = {}

\* self._check_for_attacks(str(value))
CheckForAttacks ==
    /\ phase = "received"
    /\ candidate.kind = "value"
    /\ candidate' = [kind |-> "classified", value |-> candidate.value,
                     threat |-> _check_for_attacks(candidate.value),
                     at |-> ReturnsAt(candidate.value)]
    /\ phase' = "done"
    /\ UNCHANGED <<store, settings, request, resp, log, errors>>

NextClassify == CheckForAttacks

SpecClassify == InitClassify /\ [][NextClassify]_vars

(***************************************************************************)
(* SecurityHeadersMiddleware.  The headers of a response are a set of      *)
(* entries [key, name, value]; the key is the name in lower case, as in    *)
(* django.http.ResponseHeaders, and no two entries have the same key.      *)
(***************************************************************************)
Header(name, value) == [key |-> lower(name), name |-> name, value |-> value]

\* a response[name] = value that tells names apart by letter case
setitem_CaseSensitive(response, name, value) ==
    [response EXCEPT !.headers = {h \in @ : h.name # name} \cup {Header(name, value)}]

\* response[name] = value
__setitem__(response, name, value) ==
    [response EXCEPT !.headers = {h \in @ : h.key # lower(name)} \cup {Header(name, value)}]

\* response[name], None ("") when the header is not set
__getitem__(response, name) ==
    IF \E h \in response.headers : h.key = lower(name)
    THEN (CHOOSE h \in response.headers : h.key = lower(name)).value ELSE ""

\* request.is_secure()
is_secure(req) == req.scheme = "https"

RECURSIVE SetAll(_, _)
SetAll(response, items) ==
    IF items = <<>> THEN response
    ELSE SetAll(__setitem__(response, Head(items)[1], Head(items)[2]), Tail(items))

\* a process_response that sets Strict-Transport-Security on every response
process_response_AlwaysHsts(req, response) ==
    SetAll(response,
           <<<<"X-Content-Type-Options", "nosniff">>,
             <<"X-Frame-Options", "DENY">>,
             <<"X-XSS-Protection", "1; mode=block">>,
             <<"Strict-Transport-Security", "max-age=31536000; includeSubDomains">>,
             <<"Referrer-Policy", "strict-origin-when-cross-origin">>,
             <<"Permissions-Policy", "geolocation=(), microphone=(), camera=()">>>>)

\* process_response(request, response): the assignments in the order of the source
process_response(req, response) ==
    SetAll(response,
           <<<<"X-Content-Type-Options", "nosniff">>,
             <<"X-Frame-Options", "DENY">>,
             <<"X-XSS-Protection", "1; mode=block">>,
             <<"X-Content-Type-Options", "nosniff">>,
             <<"X-Frame-Options", "DENY">>>>
           \o (IF is_secure(req)
               THEN <<<<"Strict-Transport-Security", "max-age=31536000; includeSubDomains">>>>
               ELSE <<>>)
           \o <<<<"Referrer-Policy", "strict-origin-when-cross-origin">>,
                <<"Permissions-Policy", "geolocation=(), microphone=(), camera=()">>>>)

\* what a handler may have put on its response: each header set or not, under a name in
\* a letter case of the handler's choosing
HandlerHeaders ==
    <<{Header("Content-Type", "text/html")},
      {Header("x-frame-options", "SAMEORIGIN")},
      {Header("X-XSS-Protection", "0")},
      {Header("Strict-Transport-Security", "max-age=0")},
      {Header("Referrer-Policy", "no-referrer")},
      {Header("Location", "/")}>>
HeaderSets == {UNION {HandlerHeaders[i] : i \in I} : I \in SUBSET DOMAIN HandlerHeaders}
Responses ==
    {[status |-> st, by |-> "view", body |-> b, headers |-> hs] :
        st \in {200, 403}, b \in {"", "page"}, hs \in HeaderSets}
Schemes == {"http", "https"}

InitHeaders ==
    /\ statuses = <<>>
    /\ types = InitialTypes
    /\ categories = <<>>
    /\ subcategories = <<>>
    /\ records = <<>>
    /\ settings = {}
    /\ request = NoRequest
    /\ resp = None
    /\ log = <<>>
    /\ phase = "received"
    /\ candidate \in {[kind |-> "response", scheme |-> sc, response |-> r] :
                         sc \in Schemes, r \in Responses}
    /\ errors = {}

\* middleware.process_response(request, response) on the response of the handler
ProcessResponse ==
    /\ phase = "received"
    /\ candidate.kind = "response"
    /\ resp' = process_response(candidate, candidate.response)
    /\ phase' = "done"
    /\ UNCHANGED <<store, settings, request, log, candidate, errors>>

NextHeaders == ProcessResponse

SpecHeaders == InitHeaders /\ [][NextHeaders]_vars

(***************************************************************************)
(* The lookup endpoints: get_categories_by_type and                        *)
(* get_subcategories_by_category, over a store of any taxonomy.            *)
(***************************************************************************)
\* the order of the characters of a name: that of their code points
Collation == " 0123456789ABCDEFGHIJKLMNOPQRSTUVWXYZ_abcdefghijklmnopqrstuvwxyz"
ord(c) == CHOOSE k \in 1..Len(Collation) : SubSeq(Collation, k, k) = c
RECURSIVE Less(_, _)
\* a < b for two strings
Less(a, b) ==
    IF b = "" THEN FALSE
    ELSE IF a = "" THEN TRUE
    ELSE IF Head(a) # Head(b) THEN ord(SubSeq(a, 1, 1)) < ord(SubSeq(b, 1, 1))
    ELSE Less(Tail(a), Tail(b))

Enumerations(ids) ==
    {o \in [1..Cardinality(ids) -> ids] : \A i, j \in DOMAIN o : o[i] = o[j] => i = j}

\* a queryset in the order of the primary keys
order_by_pk(rows, ids) ==
    {o \in Enumerations(ids) : \A i, j \in DOMAIN o : i < j => o[i] < o[j]}

\* QuerySet.order_by('name') over the rows ids: the orders the database may give (rows of
\* one name come in any order)
order_by(rows, ids) ==
    {o \in Enumerations(ids) :
        \A i, j \in DOMAIN o : i < j => ~Less(rows[o[j]].name, rows[o[i]].name)}

JsonResponse(data) == [status |-> 200, by |-> "view", body |-> data]
\* require_http_methods(["GET"]) answers any other method itself
HttpResponseNotAllowed == [status |-> 405, by |-> "decorator", body |-> ""]

get_categories_by_type(req, type_id) ==
    /\ IF req.method # "GET" THEN resp' = HttpResponseNotAllowed
       ELSE \E o \in order_by(categories, {c \in DOMAIN categories : categories[c].type = type_id}) :
               resp' = JsonResponse([i \in DOMAIN o |-> [id |-> o[i], name |-> categories[o[i]].name]])
    /\ UNCHANGED store

get_subcategories_by_category(req, category_id) ==
    /\ IF req.method # "GET" THEN resp' = HttpResponseNotAllowed
       ELSE \E o \in order_by(subcategories,
                              {u \in DOMAIN subcategories : subcategories[u].category = category_id}) :
               resp' = JsonResponse([i \in DOMAIN o |-> [id |-> o[i], name |-> subcategories[o[i]].name]])
    /\ UNCHANGED store

GetCategoriesByType ==
    Served("get_categories_by_type", get_categories_by_type(request, pk_of(request)))
GetSubcategoriesByCategory ==
    Served("get_subcategories_by_category", get_subcategories_by_category(request, pk_of(request)))

LookupSubcategoryNames == {"VPS", "CDN"}
LookupRequests ==
    {Request(m, r.path, get, <<>>) :
        m \in Methods, r \in api_urlpatterns,
        get \in {<<>>, <<Entry("q", "ok")>>, <<Entry("q", "1' OR '1'='1")>>}}

InitLookup ==
    /\ statuses = <<>>
    /\ \E T \in SUBSET TypeIds : types = Restrict(InitialTypes, T)
    /\ categories \in Rows(CategoryIds, [name : CategoryNameTexts \ {""}, type : DOMAIN types])
    /\ subcategories \in Rows(SubcategoryIds,
                              [name : LookupSubcategoryNames, category : DOMAIN categories])
    /\ \A c, d \in DOMAIN categories : categories[c].name = categories[d].name => c = d
    /\ \A u, v \in DOMAIN subcategories : subcategories[u] = subcategories[v] => u = v
    /\ records = <<>>
    /\ settings = {}
    /\ request \in LookupRequests
    /\ resp = None
    /\ log = <<>>
    /\ phase = "received"
    /\ candidate = NoCandidate
    /\ errors = {}

NextLookup == GetCategoriesByType \/ GetSubcategoriesByCategory

SpecLookup == InitLookup /\ [][NextLookup]_vars

(***************************************************************************)
(* The record views on their own: one request to record_create,           *)
(* record_edit or record_delete against a table that holds records         *)
(* already, one of them under a key that creation does not hand out.       *)
(***************************************************************************)
StoredRecordIds == 1..(MaxRecords + 1)
Chains == {<<"1", "1", "1">>, <<"2", "2", "2">>, <<"1", "2", "2">>, <<"2", "1", "1">>}
RoundTripData ==
    {RecordForm(d, "1", ch[1], ch[2], ch[3], am, co) :
        d \in RoundTripDates, ch \in Chains, am \in RoundTripAmounts, co \in RoundTripComments}
RoundTripRequests ==
    UNION {FormRequests(r.path, RoundTripData) :
           r \in {u \in urlpatterns : u.view \in {"record_create", "record_edit"}}}
    \cup UNION {FormRequests(r.path, NoData) :
                r \in {u \in urlpatterns : u.view = "record_delete"}}
StoredRecords ==
    {[date |-> "2025-10-04", status |-> 1, type |-> k, category |-> k, subcategory |-> k,
      amount |-> 100 * k, comment |-> "ok"] : k \in {1, 2}}

InitRoundTrip ==
    /\ statuses = <<[name |-> "Business"]>>
    /\ types = InitialTypes
    /\ categories = <<[name |-> "Infra", type |-> 1], [name |-> "Salary", type |-> 2]>>
    /\ subcategories = <<[name |-> "VPS", category |-> 1], [name |-> "Bonus", category |-> 2]>>
    /\ records \in Rows(StoredRecordIds, StoredRecords)
    /\ settings = {}
    /\ request \in RoundTripRequests
    /\ resp = None
    /\ log = <<>>
    /\ phase = "received"
    /\ candidate = NoCandidate
    /\ errors = {}

NextRoundTrip == RecordCreate \/ RecordEdit \/ RecordDelete

SpecRoundTrip == InitRoundTrip /\ [][NextRoundTrip]_vars

(***************************************************************************)
(* Two requests served at once: one to record_create or record_edit, one   *)
(* to category_edit or subcategory_edit.  form.is_valid() reads the        *)
(* tables and form.save() writes a row later, with no transaction or lock  *)
(* around the two; each is a step here, and the steps of the two requests  *)
(* interleave.                                                             *)
(***************************************************************************)
OldRecordIds == {MaxRecords + 1}
InterleavedRecordData ==
    {RecordForm("2025-10-04", "1", ch[1], ch[2], ch[3], "0.02", "ok") : ch \in Chains}
RecordRequests ==
    UNION {FormRequests(r.path, InterleavedRecordData) :
           r \in {u \in urlpatterns : u.view \in {"record_create", "record_edit"}}}
TaxonomyRequests ==
    UNION {FormRequests(r.path, FormData(r.view)) :
           r \in {u \in urlpatterns : u.view \in {"category_edit", "subcategory_edit"}}}
\* a view about to run on req
Running(req) == [request |-> req, pc |-> "is_valid", instance |-> NewRecord, response |-> None]
Answered(th, response) == [th EXCEPT !.pc = "done", !.response = response]

InitInterleaved ==
    /\ statuses = <<[name |-> "Business"]>>
    /\ types = InitialTypes
    /\ categories = <<[name |-> "Infra", type |-> 1], [name |-> "Salary", type |-> 2]>>
    /\ subcategories = <<[name |-> "VPS", category |-> 1], [name |-> "Bonus", category |-> 2]>>
    /\ records \in Rows(OldRecordIds, StoredRecords)
    /\ settings = {}
    /\ request = NoRequest
    /\ resp = None
    /\ log = <<>>
    /\ phase = "received"
    /\ candidate \in {[kind |-> "interleaved", record |-> Running(r), taxonomy |-> Running(t)] :
                         r \in RecordRequests, t \in TaxonomyRequests}
    /\ errors = {}

\* record_create / record_edit up to form.is_valid(): the filter, get_object_or_404,
\* the form's validation against the tables as they are now
RecordIsValid ==
    /\ candidate.kind = "interleaved"
    /\ candidate.record.pc = "is_valid"
    /\ \E req \in {candidate.record.request} :
          candidate' = [candidate EXCEPT !.record =
              IF process_request(req, settings).response # None
              THEN Answered(@, HttpResponseForbidden)
              ELSE IF pk_of(req) # 0 /\ pk_of(req) \notin DOMAIN records
              THEN Answered(@, Http404)
              ELSE IF req.method = "POST" /\ CashFlowRecordForm_errors(req.POST, pk_of(req)) = {}
              THEN [@ EXCEPT !.pc = "save",
                             !.instance = CashFlowRecordForm_save(req.POST, pk_of(req))]
              ELSE Answered(@, Render)]
    /\ UNCHANGED <<store, settings, request, resp, log, phase, errors>>

\* form.save() of the record form: the instance that validation built is written
RecordSave ==
    /\ candidate.kind = "interleaved"
    /\ candidate.record.pc = "save"
    /\ \E pk \in IF pk_of(candidate.record.request) = 0 THEN RecordIds \ DOMAIN records
                   ELSE {pk_of(candidate.record.request)} :
          records' = Put(records, pk, candidate.record.instance)
    /\ candidate' = [candidate EXCEPT !.record = Answered(@, Redirect)]
    /\ UNCHANGED <<statuses, types, categories, subcategories,
                   settings, request, resp, log, phase, errors>>

\* category_edit / subcategory_edit up to form.is_valid()
TaxonomyIsValid ==
    /\ candidate.kind = "interleaved"
    /\ candidate.taxonomy.pc = "is_valid"
    /\ \E req \in {candidate.taxonomy.request} :
          candidate' = [candidate EXCEPT !.taxonomy =
              IF process_request(req, settings).response # None
              THEN Answered(@, HttpResponseForbidden)
              ELSE IF resolve(req.path).view = "category_edit"
              THEN IF pk_of(req) \notin DOMAIN categories THEN Answered(@, Http404)
                   ELSE IF req.method = "POST" /\ CategoryForm_errors(req.POST, pk_of(req)) = {}
                   THEN [@ EXCEPT !.pc = "save"]
                   ELSE Answered(@, Render)
              ELSE IF pk_of(req) \notin DOMAIN subcategories THEN Answered(@, Http404)
                   ELSE IF req.method = "POST" /\ SubcategoryForm_errors(req.POST, pk_of(req)) = {}
                   THEN [@ EXCEPT !.pc = "save"]
                   ELSE Answered(@, Render)]
    /\ UNCHANGED <<store, settings, request, resp, log, phase, errors>>

\* form.save() of the category or subcategory form
TaxonomySave ==
    /\ candidate.kind = "interleaved"
    /\ candidate.taxonomy.pc = "save"
    /\ \E req \in {candidate.taxonomy.request} :
          IF resolve(req.path).view = "category_edit"
          THEN /\ categories' = Put(categories, pk_of(req), CategoryForm_save(req.POST))
               /\ UNCHANGED subcategories
          ELSE /\ subcategories' = Put(subcategories, pk_of(req), SubcategoryForm_save(req.POST))
               /\ UNCHANGED categories
    /\ candidate' = [candidate EXCEPT !.taxonomy = Answered(@, Redirect)]
    /\ UNCHANGED <<statuses, types, records, settings, request, resp, log, phase, errors>>

NextInterleaved == RecordIsValid \/ RecordSave \/ TaxonomyIsValid \/ TaxonomySave

SpecInterleaved == InitInterleaved /\ [][NextInterleaved]_vars

(***************************************************************************)
(* One middleware object serving several requests at once: each thread     *)
(* runs process_request on its own request, a statement at a time.  The    *)
(* object's attributes are in self; everything else of a call is local to  *)
(* its thread.                                                             *)
(***************************************************************************)
MaxThreads == 2
Threads == 1..MaxThreads
\* __init__: the attributes of the object, each rule table under its name
RuleTables ==
    [sql_patterns |-> "sql_patterns", xss_patterns |-> "xss_patterns",
     auth_bypass_patterns |-> "auth_bypass_patterns"]
ThreadRequests ==
    {Request("GET", "/", <<Entry("comment", "ok")>>, <<>>),
     Request("GET", "/", <<Entry("comment", "1' OR '1'='1")>>, <<>>),
     Request("POST", "/", <<Entry("search", "ok")>>, <<Entry("comment", "'; DROP TABLE x; --")>>),
     Request("POST", "/", <<>>, <<[name |-> "comment", values |-> <<"ok", "1' OR '1'='1">>]>>),
     Request("GET", "/static/css/style.css", <<Entry("comment", "1' OR '1'='1")>>, <<>>)}
\* a call of process_request(request) about to run its first statement
Call(req) ==
    [request |-> req, pc |-> "flag", all_params |-> <<>>, i |-> 1, j |-> 1,
     response |-> None, log |-> <<>>]
Return(c, t, response, entries) ==
    [c EXCEPT !.thread[t].pc = "done", !.thread[t].response = response,
              !.thread[t].log = entries]
\* one turn of the loops over params: the next value is checked
Loop(c, t, params) ==
    LET th == c.thread[t]
    IN  IF th.i > Len(params) THEN Return(c, t, None, <<>>)
        ELSE IF th.j > Len(params[th.i].values)
        THEN [c EXCEPT !.thread[t].i = @ + 1, !.thread[t].j = 1]
        ELSE IF IsAttack(params[th.i].values[th.j])
        THEN Return(c, t, HttpResponseForbidden,
                    <<_log_attack_attempt(th.request, params[th.i].name,
                                          params[th.i].values[th.j])>>)
        ELSE [c EXCEPT !.thread[t].j = @ + 1]

\* a process_request that keeps all_params on the object
Step_ParamsOnSelf(c, t) ==
    LET th == c.thread[t]
    IN  CASE th.pc = "flag" ->
                IF getattr(settings, "DISABLE_SECURITY_MIDDLEWARE", FALSE)
                THEN Return(c, t, None, <<>>) ELSE [c EXCEPT !.thread[t].pc = "paths"]
          [] th.pc = "paths" ->
                IF \E k \in DOMAIN excluded_paths : startswith(th.request.path, excluded_paths[k])
                THEN Return(c, t, None, <<>>) ELSE [c EXCEPT !.thread[t].pc = "merge"]
          [] th.pc = "merge" ->
                [c EXCEPT !.self = Put(@, "all_params", all_params(th.request)),
                          !.thread[t].pc = "loop"]
          [] th.pc = "loop" -> Loop(c, t, c.self["all_params"])

\* the next statement of thread t's call of process_request
Step(c, t) ==
    LET th == c.thread[t]
    IN  CASE th.pc = "flag" ->
                IF getattr(settings, "DISABLE_SECURITY_MIDDLEWARE", FALSE)
                THEN Return(c, t, None, <<>>) ELSE [c EXCEPT !.thread[t].pc = "paths"]
          [] th.pc = "paths" ->
                IF \E k \in DOMAIN excluded_paths : startswith(th.request.path, excluded_paths[k])
                THEN Return(c, t, None, <<>>) ELSE [c EXCEPT !.thread[t].pc = "merge"]
          [] th.pc = "merge" ->
                [c EXCEPT !.thread[t].all_params = all_params(th.request),
                          !.thread[t].pc = "loop"]
          [] th.pc = "loop" -> Loop(c, t, th.all_params)

InitThreads ==
    /\ statuses = <<>>
    /\ types = InitialTypes
    /\ categories = <<>>
    /\ subcategories = <<>>
    /\ records = <<>>
    /\ settings \in Settings
    /\ request = NoRequest
    /\ resp = None
    /\ log = <<>>
    /\ phase = "received"
    /\ candidate \in {[kind |-> "threads", self |-> RuleTables, thread |-> [t \in Threads |-> Call(rs[t])]] :
                         rs \in [Threads -> ThreadRequests]}
    /\ errors = {}

\* some thread runs its next statement; an audit entry goes to the one logger
ThreadStep ==
    /\ candidate.kind = "threads"
    /\ \E t \in Threads :
          /\ candidate.thread[t].pc # "done"
          /\ \E c \in {Step(candidate, t)} :
                /\ candidate' = c
                /\ log' = log \o c.thread[t].log
                /\ phase' = IF \A u \in Threads : c.thread[u].pc = "done" THEN "done" ELSE "received"
    /\ UNCHANGED <<store, settings, request, resp, errors>>

NextThreads == ThreadStep

SpecThreads == InitThreads /\ [][NextThreads]_vars

(***************************************************************************)
(* The claims about the store and the pipeline, under Spec.                *)
(***************************************************************************)
Consistent(r) ==
    /\ subcategories[records[r].subcategory].category = records[r].category
    /\ categories[records[r].category].type = records[r].type
Serving(view) == phase = "received" /\ resolve(request.path).view = view
Posting(view) == Serving(view) /\ request.method = "POST"
Rejected(req) == process_request(req, settings).response = HttpResponseForbidden

\* C1: in every reachable state every stored record has a consistent chain: its
\* subcategory belongs to its category and its category to its type, whichever way the
\* record was written (record_create, record_edit, a direct create)
C1_RecordsConsistent == \A r \in DOMAIN records : Consistent(r)

\* C2: a category_edit or subcategory_edit leaves every stored record that refers to the
\* edited row, and had a consistent chain, with a consistent chain
C2_EditKeepsRecordsConsistent ==
    [][\A r \in DOMAIN records :
          /\ (Serving("category_edit") /\ records[r].category = pk_of(request)
                  /\ Consistent(r)) => Consistent(r)'
          /\ (Serving("subcategory_edit") /\ records[r].subcategory = pk_of(request)
                  /\ Consistent(r)) => Consistent(r)'
      ]_vars

\* C4: a request the filter rejects changes nothing in the store, is answered 403, and
\* the answer is the middleware's: no view produced one
C4_RejectedNeverReachesView ==
    [][(phase = "received" /\ Rejected(request)) =>
          (UNCHANGED store /\ resp'.status = 403 /\ resp'.by = "middleware")]_vars
\* a rejection answered while the store holds a record
C4_Witness == phase = "done" /\ resp.status = 403 /\ log # <<>> /\ records # <<>>

\* C8: a POST to record_create or record_edit whose submission misses a required field,
\* has an amount not above zero, or names a broken chain, leaves the store as it was
RequiredFields == {"date", "status", "type", "category", "subcategory", "amount"}
MissingRequired(data) == \E f \in RequiredFields : Get(data, f) = ""
AmountNotPositive(data) ==
    DecimalField(Get(data, "amount")).ok /\ DecimalField(Get(data, "amount")).value <= 0
Named(data, f, rows) == IsInt(Get(data, f)) /\ int(Get(data, f)) \in rows
HierarchyViolation(data) ==
    /\ Named(data, "type", DOMAIN types)
    /\ Named(data, "category", DOMAIN categories)
    /\ Named(data, "subcategory", DOMAIN subcategories)
    /\ \/ subcategories[int(Get(data, "subcategory"))].category # int(Get(data, "category"))
       \/ categories[int(Get(data, "category"))].type # int(Get(data, "type"))
FailsValidation(data) ==
    MissingRequired(data) \/ AmountNotPositive(data) \/ HierarchyViolation(data)
C8_FailedSubmissionWritesNothing ==
    [][((Posting("record_create") \/ Posting("record_edit")) /\ FailsValidation(request.POST))
          => UNCHANGED store]_vars
\* record_edit about to answer a submission with a broken chain and nothing else wrong,
\* for a stored record
C8_Witness ==
    /\ Posting("record_edit")
    /\ pk_of(request) \in DOMAIN records
    /\ HierarchyViolation(request.POST)
    /\ ~MissingRequired(request.POST) /\ ~AmountNotPositive(request.POST)
    /\ ENABLED RecordEdit

\* C10: no row refers to a missing row, and the delete of a type takes its categories,
\* their subcategories and every record that refers to any of them, the delete of a
\* category its subcategories and their records
NoOrphans ==
    /\ \A c \in DOMAIN categories : categories[c].type \in DOMAIN types
    /\ \A u \in DOMAIN subcategories : subcategories[u].category \in DOMAIN categories
    /\ \A r \in DOMAIN records :
          /\ records[r].status \in DOMAIN statuses
          /\ records[r].type \in DOMAIN types
          /\ records[r].category \in DOMAIN categories
          /\ records[r].subcategory \in DOMAIN subcategories
CategoriesOf(T) == {c \in DOMAIN categories : categories[c].type \in T}
SubcategoriesOf(C) == {u \in DOMAIN subcategories : subcategories[u].category \in C}
RecordsOf(T, C, U) ==
    {r \in DOMAIN records : \/ records[r].type \in T \/ records[r].category \in C
                            \/ records[r].subcategory \in U}
Gone(T, C) ==
    /\ DOMAIN types' \cap T = {}
    /\ DOMAIN categories' \cap (C \cup CategoriesOf(T)) = {}
    /\ DOMAIN subcategories' \cap SubcategoriesOf(C \cup CategoriesOf(T)) = {}
    /\ DOMAIN records' \cap RecordsOf(T, C \cup CategoriesOf(T),
                                      SubcategoriesOf(C \cup CategoriesOf(T))) = {}
DeleteCascades ==
    /\ (Posting("type_delete") /\ pk_of(request) \in DOMAIN types)
          => Gone({pk_of(request)}, {})
    /\ (Posting("category_delete") /\ pk_of(request) \in DOMAIN categories)
          => Gone({}, {pk_of(request)})
C10_NoOrphans == []NoOrphans /\ [][DeleteCascades]_vars
\* type_delete about to delete a type that a whole chain hangs from: a category of the
\* type, a subcategory of the category and a record of them; the delete empties the store
\* of all three
C10_Witness ==
    /\ Posting("type_delete")
    /\ \E r \in DOMAIN records :
          /\ Consistent(r)
          /\ records[r].type = pk_of(request)
    /\ ENABLED (TypeDelete /\ records' = <<>> /\ subcategories' = <<>>)

(***************************************************************************)
(* The claims about the filter's decision, under SpecFilter.               *)
(***************************************************************************)
Allowlisted(path) == \E i \in DOMAIN excluded_paths : startswith(path, excluded_paths[i])
Disabled == getattr(settings, "DISABLE_SECURITY_MIDDLEWARE", FALSE)
Inspected == phase = "done" /\ ~Disabled /\ ~Allowlisted(request.path)
ThreatIn(d) == \E i \in DOMAIN d : \E j \in DOMAIN d[i].values : IsAttack(d[i].values[j])

\* C3: with the filter on and the path not allow-listed, the request is rejected exactly
\* when some value of some query-string or body parameter is a threat, a name that occurs
\* in both included
C3_RejectedIffAnyThreat ==
    Inspected => (resp = HttpResponseForbidden <=> (ThreatIn(request.GET) \/ ThreatIn(request.POST)))

\* C5: a rejected request leaves exactly one audit entry, an allowed one none; the entry
\* carries the name and the value of the first attack in the order the parameters are
\* gone through
FirstAttack(params, i, j) ==
    /\ IsAttack(params[i].values[j])
    /\ \A k \in 1..i : \A l \in DOMAIN params[k].values :
          (k < i \/ l < j) => ~IsAttack(params[k].values[l])
C5_OneAuditEntryPerRejection ==
    phase = "done" =>
        IF resp = HttpResponseForbidden
        THEN /\ Len(log) = 1
             /\ \E i \in DOMAIN all_params(request) :
                   \E j \in DOMAIN all_params(request)[i].values :
                      /\ FirstAttack(all_params(request), i, j)
                      /\ log[1].Parameter = all_params(request)[i].name
                      /\ log[1].Value = all_params(request)[i].values[j]
        ELSE log = <<>>
\* a rejected request with an attack under each of two names, an attack in second place
\* among them, and a harmless value in front of the one logged
C5_Witness ==
    /\ Inspected
    /\ resp = HttpResponseForbidden
    /\ Len(log) = 1
    /\ ThreatIn(request.GET) /\ ThreatIn(request.POST)
    /\ request.GET[1].name # request.POST[1].name
    /\ ~IsAttack(request.GET[1].values[1])
    /\ log[1].Parameter = request.GET[1].name

(***************************************************************************)
(* The claims about validation, under SpecValidate.                        *)
(***************************************************************************)
HierarchyErrors == {SubcategoryMismatch, CategoryMismatch}
AllPresent(c) == c.subcategory # 0 /\ c.category # 0 /\ c.type # 0
SubcategoryBroken(c) == subcategories[c.subcategory].category # c.category
CategoryBroken(c) == categories[c.category].type # c.type
\* cleaned_data of a form candidate, a field that failed being absent (0)
CleanedChain(data, pk) ==
    [f \in {"type", "category", "subcategory"} |-> Cleaned(RecordFields(data, pk), f)]
Validated(kind) == phase = "done" /\ candidate.kind = kind

\* C6: the validation of a candidate that breaks both rules, its subcategory not of its
\* category and its category not of its type, reports both violations
C6_EveryViolationReported ==
    (Validated("instance") /\ AllPresent(candidate.instance)
        /\ SubcategoryBroken(candidate.instance) /\ CategoryBroken(candidate.instance))
    => HierarchyErrors \subseteq errors

\* C7: for a candidate with subcategory, category and type present, validation reports
\* a hierarchy violation when the subcategory is not of the category or the category
\* not of the type, and none when both hold; for an instance and for a form alike
ChainChecked(c) ==
    (errors \cap HierarchyErrors # {}) <=> (SubcategoryBroken(c) \/ CategoryBroken(c))
C7_HierarchyValidator ==
    /\ (Validated("instance") /\ AllPresent(candidate.instance))
          => ChainChecked(candidate.instance)
    /\ (Validated("form") /\ AllPresent(CleanedChain(candidate.data, candidate.pk)))
          => ChainChecked(CleanedChain(candidate.data, candidate.pk))
\* an instance whose subcategory is of its category while the category is not of its
\* type, validated and reported
C7_Witness ==
    /\ Validated("instance") /\ AllPresent(candidate.instance)
    /\ ~SubcategoryBroken(candidate.instance) /\ CategoryBroken(candidate.instance)
    /\ CategoryMismatch \in errors

\* C9: an amount of 0.00 is rejected with an error on the amount field, an amount
\* of 0.01 is accepted: no error on the amount field
AmountError == \E e \in errors : e[1] = "amount"
C9_AmountBoundary ==
    /\ Validated("form") =>
          /\ Get(candidate.data, "amount") = "0.00" => AmountError
          /\ Get(candidate.data, "amount") = "0.01" => ~AmountError
    /\ Validated("instance") =>
          /\ candidate.instance.amount = 0 => AmountError
          /\ candidate.instance.amount = 1 => ~AmountError

(***************************************************************************)
(* C11: names are unique per directory table, subcategory names per        *)
(* category                                                                *)
(***************************************************************************)
NoDuplicates(rows) == \A j, k \in DOMAIN rows : j # k => rows[j].name # rows[k].name
UniqueNames ==
    /\ NoDuplicates(statuses)
    /\ NoDuplicates(types)
    /\ NoDuplicates(categories)
    /\ \A j, k \in DOMAIN subcategories :
          j # k => \/ subcategories[j].name # subcategories[k].name
                   \/ subcategories[j].category # subcategories[k].category

\* the name a create form submits, as the form reads it
Submitted == strip(Get(request.POST, "name"))
Taken(rows, n) == \E k \in DOMAIN rows : rows[k].name = n
TakenIn(n, ca) ==
    \E k \in DOMAIN subcategories :
       subcategories[k].name = n /\ subcategories[k].category = ca
SubmittedCategory ==
    IF IsInt(Get(request.POST, "category")) THEN int(Get(request.POST, "category")) ELSE 0

\* the request being served asks to create a row whose name is already there
CreatesDuplicate ==
    \/ Posting("status_create") /\ Taken(statuses, Submitted)
    \/ Posting("type_create") /\ Taken(types, Submitted)
    \/ Posting("category_create") /\ Taken(categories, Submitted)
    \/ Posting("subcategory_create") /\ TakenIn(Submitted, SubmittedCategory)

\* the request being served asks for a subcategory whose name exists, but only under
\* other categories than the one it names
CreatesUnderOtherCategory ==
    /\ Posting("subcategory_create")
    /\ ~Rejected(request)
    /\ Taken(subcategories, Submitted)
    /\ SubmittedCategory \in DOMAIN categories
    /\ ~TakenIn(Submitted, SubmittedCategory)

\* C11: no two statuses, types or categories have the same name, no two subcategories of
\* one category have the same name; a request to create a duplicate leaves the store as
\* it was, and a request to create a subcategory whose name exists only under another
\* category adds that subcategory
C11_NamesUnique ==
    /\ []UniqueNames
    /\ [][CreatesDuplicate => UNCHANGED store]_vars
    /\ [][CreatesUnderOtherCategory =>
             /\ \E k \in DOMAIN subcategories' :
                   subcategories'[k] = [name |-> Submitted, category |-> SubmittedCategory]
             /\ Cardinality(DOMAIN subcategories') = Cardinality(DOMAIN subcategories) + 1
             /\ resp' = Redirect]_vars

\* one name is stored under two categories and a request to create it a third time is
\* being served
C11_Witness ==
    /\ \E j, k \in DOMAIN subcategories :
          /\ subcategories[j].name = subcategories[k].name
          /\ subcategories[j].category # subcategories[k].category
    /\ CreatesDuplicate
    /\ Posting("subcategory_create")

(***************************************************************************)
(* The claims about the classifier, under SpecClassify.                    *)
(***************************************************************************)
Classifying(v) == phase = "done" /\ candidate.kind = "classified" /\ candidate.value = v
ContainsAny(v, ws) == \E w \in ws : Contains(lower(v), w)
KeywordWithDelimiter(v) == ContainsAny(v, Keywords) /\ ContainsAny(v, Delimiters)

\* what section 4.1 lists for its three rule groups: words, and marks
ListedWords ==
    Keywords \cup {"or", "and", "concat", "substring", "load_file", "into outfile"}
    \cup {"script", "iframe", "object", "embed", "link", "meta", "style", "img", "svg"}
    \cup Accounts \cup Credentials \cup Logins \cup Auths
ListedMarks == Delimiters \cup Operators \cup {"&lt;", "&gt;"}
PlainText(v) == ~ContainsAny(v, ListedWords) /\ ~ContainsAny(v, ListedMarks)

\* C13: a value that is plain text, with none of the listed words and marks anywhere
\* in it, is classified as no threat
C13_PlainTextIsNoThreat ==
    \A v \in ClassifyValues : Classifying(v) /\ PlainText(v) => ~candidate.threat

\* C14: for every word of the auth_bypass patterns, the word alone is no threat, and the
\* word with a quote or one of =, <, > right after it is a threat
C14_AuthProbePrecision ==
    \A w \in Accounts \cup Credentials \cup Logins \cup Auths :
        /\ Classifying(w) => ~candidate.threat
        /\ \A f \in Quotes \cup Operators : Classifying(w \o f) => candidate.threat

\* a <script>...</script> or <img onerror=...> fragment somewhere in the value
ScriptFragment(v) ==
    \/ SearchElement(lower(v), "script")
    \/ SearchTag(lower(v), "img") /\ Contains(lower(v), "onerror=")

\* C15: the groups are tried in the order SQL, XSS, auth-probe, the first that matches
\* gives the kind reported, and a value with a script or img-onerror fragment is
\* reported as XSS
C15_ScriptFragmentIsXss ==
    \A v \in ClassifyValues :
        Classifying(v) /\ ScriptFragment(v) => candidate.at = "xss_patterns"

(***************************************************************************)
(* The claims about the filter's decision and its response, under          *)
(* SpecFilter.                                                             *)
(***************************************************************************)
ValuesIn(d) == UNION {{d[i].values[j] : j \in DOMAIN d[i].values} : i \in DOMAIN d}
Carried(req) == ValuesIn(req.GET) \cup ValuesIn(req.POST)
Allowed == resp = None /\ log = <<>>

\* C12: a value with a SQL keyword and a statement delimiter or comment marker in it, in
\* any letter case, is classified as a threat, and an inspected request that carries it as
\* a parameter value is rejected
C12_KeywordWithDelimiterRejected ==
    Inspected =>
        \A v \in Carried(request) :
            KeywordWithDelimiter(v) => IsAttack(v) /\ resp = HttpResponseForbidden

\* C16: every rejected request gets the same response, status 403 and the one fixed body,
\* whichever parameter and value it was rejected for
C16_RejectionsIdentical ==
    phase = "done" /\ resp # None =>
        /\ resp = HttpResponseForbidden
        /\ resp.status = 403
\* a request rejected for the value that is not the one other rejections were for
C16_Witness ==
    /\ phase = "done"
    /\ resp = HttpResponseForbidden
    /\ Len(log) = 1
    /\ log[1].Parameter = "comment"
    /\ log[1].Value = "'; DROP TABLE x; --"
    /\ request.method = "POST"

\* C17: a request whose path starts with an excluded prefix is allowed whatever it
\* carries, with no audit entry; with the filter on, a request with any other path is
\* rejected exactly when a value of its parameters is a threat
C17_ExcludedPathsSkipped ==
    phase = "done" =>
        IF Allowlisted(request.path) THEN Allowed
        ELSE ~Disabled =>
                (resp = HttpResponseForbidden <=> ThreatIn(all_params(request)))
\* an excluded path with an attack in its query string, allowed with the filter on
C17_Witness ==
    /\ phase = "done"
    /\ ~Disabled
    /\ Allowlisted(request.path)
    /\ ThreatIn(request.GET)
    /\ Allowed

\* C18: with DISABLE_SECURITY_MIDDLEWARE true every request is allowed and nothing is
\* logged; with the flag false or not set, a request outside the excluded paths is
\* rejected exactly when a value of its parameters is a threat
C18_DisableFlag ==
    phase = "done" =>
        IF <<"DISABLE_SECURITY_MIDDLEWARE", TRUE>> \in settings THEN Allowed
        ELSE ~Allowlisted(request.path) =>
                (resp = HttpResponseForbidden <=> ThreatIn(all_params(request)))
\* the flag is true and a request outside the excluded paths with an attack in its body
\* is allowed
C18_Witness ==
    /\ phase = "done"
    /\ <<"DISABLE_SECURITY_MIDDLEWARE", TRUE>> \in settings
    /\ ~Allowlisted(request.path)
    /\ ThreatIn(request.POST)
    /\ Allowed

(***************************************************************************)
(* The claims about the response headers, under SpecHeaders.               *)
(***************************************************************************)
Augmented == phase = "done" /\ candidate.kind = "response"
FixedHeaders ==
    {<<"X-Content-Type-Options", "nosniff">>,
     <<"X-Frame-Options", "DENY">>,
     <<"X-XSS-Protection", "1; mode=block">>,
     <<"Referrer-Policy", "strict-origin-when-cross-origin">>,
     <<"Permissions-Policy", "geolocation=(), microphone=(), camera=()">>}
Hsts == "Strict-Transport-Security"
ManagedKeys == {lower(f[1]) : f \in FixedHeaders} \cup {lower(Hsts)}
EntriesOf(response, key) == {h \in response.headers : h.key = key}

\* C19: after process_response the response carries the five fixed headers with their
\* fixed values, whatever the handler had set under those names; process_response
\* yields a response for every response it is given; every header it does not manage, the status and the body are as
\* the handler left them
C19_FixedHeadersSet ==
    /\ phase = "received" /\ candidate.kind = "response" =>
          DOMAIN process_response(candidate, candidate.response) = DOMAIN candidate.response
    /\ Augmented =>
          /\ \A f \in FixedHeaders :
                /\ __getitem__(resp, f[1]) = f[2]
                /\ Cardinality(EntriesOf(resp, lower(f[1]))) = 1
          /\ \A h \in resp.headers \cup candidate.response.headers :
                h.key \notin ManagedKeys =>
                    h \in resp.headers /\ h \in candidate.response.headers
          /\ resp.status = candidate.response.status
          /\ resp.body = candidate.response.body
\* the handler had set two of the five under other values, one of them under a name in
\* lower case, and headers of its own, on a 403 with a body
C19_Witness ==
    /\ Augmented
    /\ __getitem__(candidate.response, "X-Frame-Options") = "SAMEORIGIN"
    /\ __getitem__(candidate.response, "X-XSS-Protection") = "0"
    /\ __getitem__(candidate.response, "Location") = "/"
    /\ candidate.response.status = 403
    /\ candidate.response.body = "page"
    /\ __getitem__(resp, "X-Frame-Options") = "DENY"

\* C20: after process_response of a secure request Strict-Transport-Security is set; of a
\* request that is not secure, the header is as the handler left it, set or not
C20_HstsOnlyWhenSecure ==
    Augmented =>
        IF is_secure(candidate)
        THEN __getitem__(resp, Hsts) = "max-age=31536000; includeSubDomains"
        ELSE EntriesOf(resp, lower(Hsts)) = EntriesOf(candidate.response, lower(Hsts))
\* a request that is not secure, answered by a handler that set no such header
C20_Witness ==
    /\ Augmented
    /\ ~is_secure(candidate)
    /\ EntriesOf(candidate.response, lower(Hsts)) = {}
    /\ EntriesOf(resp, lower(Hsts)) = {}
    /\ __getitem__(resp, "X-Frame-Options") = "DENY"

(***************************************************************************)
(* The claims about the lookup endpoints, under SpecLookup.                *)
(***************************************************************************)
LookingUp(view) == Serving(view) /\ request.method = "GET" /\ ~Rejected(request)
\* the response is the list of {id, name} of exactly the rows ids, in ascending name order
Lists(r, rows, ids) ==
    /\ r.status = 200
    /\ Len(r.body) = Cardinality(ids)
    /\ {r.body[i] : i \in DOMAIN r.body} = {[id |-> k, name |-> rows[k].name] : k \in ids}
    /\ \A i, j \in DOMAIN r.body : i < j => ~Less(r.body[j].name, r.body[i].name)

\* C21: the category lookup of a type answers with exactly the categories of that type,
\* the subcategory lookup of a category with exactly the subcategories of that category,
\* as {id, name} items in ascending order of name, and the store is as it was
C21_LookupsFilterAndSort ==
    /\ [][LookingUp("get_categories_by_type") =>
             /\ Lists(resp', categories,
                      {c \in DOMAIN categories : categories[c].type = pk_of(request)})
             /\ UNCHANGED store]_vars
    /\ [][LookingUp("get_subcategories_by_category") =>
             /\ Lists(resp', subcategories,
                      {u \in DOMAIN subcategories : subcategories[u].category = pk_of(request)})
             /\ UNCHANGED store]_vars
\* a lookup answered with two items whose order of name is not their order of id, while
\* the store holds a row of another parent
C21_Witness ==
    /\ phase = "done"
    /\ resp.status = 200
    /\ Len(resp.body) = 2
    /\ resp.body[1].id > resp.body[2].id
    /\ Cardinality(DOMAIN categories) = 2
    /\ Cardinality(DOMAIN subcategories) = 2
    /\ \E c, d \in DOMAIN categories : categories[c].type # categories[d].type

\* C22: a lookup for a type, or a category, that does not exist is answered 404
C22_UnknownParentIs404 ==
    /\ [][LookingUp("get_categories_by_type") /\ pk_of(request) \notin DOMAIN types =>
             resp'.status = 404]_vars
    /\ [][LookingUp("get_subcategories_by_category") /\ pk_of(request) \notin DOMAIN categories =>
             resp'.status = 404]_vars

(***************************************************************************)
(* The claims about the record form, under SpecValidate.                   *)
(***************************************************************************)
\* C23: a record form whose comment is classified as an attack is invalid, with an error
\* on the comment field
C23_FormRefusesPayload ==
    Validated("form") /\ IsAttack(Get(candidate.data, "comment")) =>
        \E e \in errors : e[1] = "comment"

(***************************************************************************)
(* The claims about concurrent inspection, under SpecThreads.              *)
(***************************************************************************)
Alone(t) == process_request(candidate.thread[t].request, settings)
Emitted == {candidate.thread[t].log[1] : t \in {u \in Threads : candidate.thread[u].log # <<>>}}

\* C24: the attributes of the middleware object are never written after construction,
\* and in every interleaving each call ends with the response and the audit entry of the
\* same request inspected alone; the logger holds the entries of the calls that ended
C24_ConcurrentInspection ==
    /\ candidate.self = RuleTables
    /\ \A t \in Threads :
          candidate.thread[t].pc = "done" =>
              /\ candidate.thread[t].response = Alone(t).response
              /\ candidate.thread[t].log = Alone(t).log
    /\ {log[k] : k \in DOMAIN log} = Emitted
\* a call that ended rejected while another call of another request is in the middle of
\* its loop, and a third outcome: two calls of one request both ended
C24_Witness ==
    \E t, u \in Threads :
        /\ t # u
        /\ candidate.thread[t].pc = "done"
        /\ candidate.thread[t].response = HttpResponseForbidden
        /\ candidate.thread[u].pc = "loop"
        /\ candidate.thread[u].j = 2
        /\ candidate.thread[u].request # candidate.thread[t].request
        /\ candidate.thread[u].all_params # candidate.thread[t].all_params

(***************************************************************************)
(* The claims about the record form's round trip, under SpecRoundTrip.     *)
(***************************************************************************)
\* the record that the form of the request describes, the comment as typed
SubmittedRecord ==
    [date |-> Get(request.POST, "date"),
     status |-> int(Get(request.POST, "status")),
     type |-> int(Get(request.POST, "type")),
     category |-> int(Get(request.POST, "category")),
     subcategory |-> int(Get(request.POST, "subcategory")),
     amount |-> DecimalField(Get(request.POST, "amount")).value,
     comment |-> Get(request.POST, "comment")]
\* the same, the comment without the whitespace around it
SubmittedRecordStripped == [SubmittedRecord EXCEPT !.comment = strip(@)]
Succeeds(view) == Posting(view) /\ resp' = Redirect
CreatesOne(row) ==
    \E pk \in DOMAIN records' \ DOMAIN records :
        /\ DOMAIN records' = DOMAIN records \cup {pk}
        /\ records'[pk] = row
        /\ \A k \in DOMAIN records : records'[k] = records[k]
RewritesOne(pk, row) ==
    /\ DOMAIN records' = DOMAIN records
    /\ records'[pk] = row
    /\ \A k \in DOMAIN records \ {pk} : records'[k] = records[k]

Saving == candidate.kind = "interleaved" /\ candidate.record.pc = "save"

\* C26: a record view served at once with a category_edit or subcategory_edit that moves
\* the row the record refers to: however the record's validation, the record's write and
\* the taxonomy write interleave, the record that the view writes has a consistent chain
\* in the tables as they are when it is written
C26_ValidateBeforeWriteSuffices ==
    [][(Saving /\ candidate'.record.pc = "done") =>
          \E r \in DOMAIN records' :
              /\ records'[r] = candidate.record.instance
              /\ subcategories'[records'[r].subcategory].category = records'[r].category
              /\ categories'[records'[r].category].type = records'[r].type]_vars

\* a submission that is valid field by field and names a consistent chain
ConsistentSubmission(data) ==
    /\ DateField(Get(data, "date")).ok
    /\ Named(data, "status", DOMAIN statuses)
    /\ Named(data, "type", DOMAIN types)
    /\ Named(data, "category", DOMAIN categories)
    /\ Named(data, "subcategory", DOMAIN subcategories)
    /\ ~HierarchyViolation(data)
    /\ DecimalField(Get(data, "amount")).ok
    /\ ~AmountNotPositive(data)

\* C27: record_edit of a stored record accepts every submission that names a consistent
\* chain, the chains under another type than the record's included: the record is
\* rewritten with the submitted values
C27_EditAcceptsConsistentChain ==
    [][(/\ Posting("record_edit")
        /\ pk_of(request) \in DOMAIN records
        /\ ~Rejected(request)
        /\ ConsistentSubmission(request.POST))
          => /\ resp' = Redirect
             /\ records'[pk_of(request)] = SubmittedRecordStripped]_vars

Taxonomy == <<statuses, types, categories, subcategories>>
\* C28: record_delete answers a GET with the confirmation page and a request for a
\* record that does not exist with not-found, both leaving the store as it was; a POST
\* removes the addressed record, and every other record and row is left as it was
C28_DeleteFrame ==
    /\ [][(Serving("record_delete") /\ pk_of(request) \notin DOMAIN records)
             => resp' = Http404 /\ UNCHANGED store]_vars
    /\ [][(Serving("record_delete") /\ pk_of(request) \in DOMAIN records
              /\ request.method = "GET")
             => resp' = Render /\ UNCHANGED store]_vars
    /\ [][(Posting("record_delete") /\ pk_of(request) \in DOMAIN records)
             => /\ resp' = Redirect
                /\ DOMAIN records' = DOMAIN records \ {pk_of(request)}
                /\ \A k \in DOMAIN records' : records'[k] = records[k]
                /\ UNCHANGED Taxonomy]_vars
\* a POST to delete one of two stored records is being served
C28_Witness ==
    /\ Posting("record_delete")
    /\ pk_of(request) \in DOMAIN records
    /\ Cardinality(DOMAIN records) = 2

(***************************************************************************)
(* The claims about what the filter's decision depends on, under           *)
(* SpecFilter.                                                             *)
(***************************************************************************)
\* the values of a query string or body, name by name, without the names
ValuesByPosition(d) == [i \in DOMAIN d |-> d[i].values]
\* two requests with the same values in the query string and in the body, and paths both
\* inside or both outside the excluded prefixes
AgreeOnValues(r, q) ==
    /\ Allowlisted(r.path) = Allowlisted(q.path)
    /\ ValuesByPosition(r.GET) = ValuesByPosition(q.GET)
    /\ ValuesByPosition(r.POST) = ValuesByPosition(q.POST)

\* C29: the decision on a request is the decision on every request that has the same
\* flag, the same membership of its path in the excluded prefixes and the same parameter
\* values, whatever its parameter names, the rest of its path and its method
C29_DecisionDependsOnValuesOnly ==
    phase = "done" =>
        \A q \in FilterRequests :
            AgreeOnValues(request, q) => process_request(q, settings).response = resp

(***************************************************************************)
(* The claims about the rule groups against each other, under              *)
(* SpecClassify.                                                           *)
(***************************************************************************)
\* _check_for_attacks with the loop over xss_patterns taken out
CheckWithoutXss(value) ==
    IF value = "" THEN FALSE
    ELSE \/ AnyOf(sql_patterns(lower(value)))
         \/ AnyOf(auth_bypass_patterns(lower(value)))
HasClassified == phase = "done" /\ candidate.kind = "classified"
QuoteRule == 4
AngleBracketRule == 6

\* C30: a value that a pattern of xss_patterns matches is matched by the angle-bracket
\* rule of sql_patterns, so the loop over xss_patterns never returns and the result is
\* that of the check without it; an auth_bypass pattern asking for a quote is matched
\* only where the quote rule of sql_patterns matches, one asking for an operator and
\* met by < or > only where the angle-bracket rule matches, and the loop over
\* auth_bypass_patterns returns only for a word followed by =
C30_XssGroupNeverDecides ==
    HasClassified =>
        /\ AnyOf(xss_patterns(lower(candidate.value)))
              => sql_patterns(lower(candidate.value))[AngleBracketRule]
        /\ candidate.at # "xss_patterns"
        /\ candidate.threat = CheckWithoutXss(candidate.value)
        /\ \A i \in 1..4 : auth_bypass_patterns(lower(candidate.value))[i]
              => sql_patterns(lower(candidate.value))[QuoteRule]
        /\ SearchProbe(lower(candidate.value), Accounts \cup Credentials, {"<", ">"})
              => sql_patterns(lower(candidate.value))[AngleBracketRule]
        /\ candidate.at = "auth_bypass_patterns"
              => SearchProbe(lower(candidate.value), Accounts \cup Credentials, {"="})
\* a value that a pattern of xss_patterns matches and that no rule of sql_patterns but
\* the angle-bracket rule matches has been classified a threat
C30_Witness ==
    /\ HasClassified
    /\ AnyOf(xss_patterns(lower(candidate.value)))
    /\ \A i \in DOMAIN sql_patterns(lower(candidate.value)) :
          sql_patterns(lower(candidate.value))[i] <=> i = AngleBracketRule
    /\ candidate.threat
    /\ candidate.at = "sql_patterns"

====
